---- MODULE Spec2Model ----
(***************************************************************************)
(* Job-processing and ledger engine of the loyalty ledger: the rule        *)
(* runner's workers pick receipt and redeem jobs from the relational       *)
(* store, run the rule plugins, post journal entries, create and consume   *)
(* point lots, and complete, reschedule or fail the job.                   *)
(*                                                                         *)
(* The store is PostgreSQL at READ COMMITTED: every statement reads the    *)
(* committed rows plus the rows its own transaction wrote; an UPDATE takes *)
(* a row lock held until the transaction ends and, after waiting for a     *)
(* lock, re-evaluates its WHERE clause on the latest committed row.        *)
(***************************************************************************)
EXTENDS Integers, Sequences, FiniteSets, TLC

(***************************************************************************)
(* Bounds of the model.                                                    *)
(***************************************************************************)
NumWorkers == 2
MaxTicks == 2
MaxStoreErrors == 1
MaxQty == 3

(***************************************************************************)
(* Program constants.                                                      *)
(***************************************************************************)
BackoffStepMs == 5000
BackoffCapMs == 60000
DayMs == 24 * 60 * 60 * 1000
DEFAULT_PROGRAM_ID == "default_points"
DEFAULT_UNIT == "points"
NULL == "NULL"
TenantId == "t1"

Workers == 1..NumWorkers

merchantAccountId(tenantId) == tenantId \o "::merchant_liability"

customerAccountId(tenantId, accountRef) == tenantId \o "::acct::" \o accountRef

(***************************************************************************)
(* Sequence helpers.                                                       *)
(***************************************************************************)
Range(s) == {s[i] : i \in DOMAIN s}

Min(a, b) == IF a <= b THEN a ELSE b

EmptyFn == [x \in {} |-> 0]

(***************************************************************************)
(* Optional values: <<>> is SQL NULL / JS undefined, <<v>> a value.        *)
(* A string that may contain ':' is the sequence of its ':'-separated      *)
(* segments, so "earn:m1" is <<"earn", "m1">>.                             *)
(***************************************************************************)
None == <<>>
Some(v) == <<v>>
IsNone(o) == o = <<>>

(***************************************************************************)
(* Ledger primitives.                                                      *)
(***************************************************************************)
RECURSIVE TotalDebit(_)
TotalDebit(lines) ==
  IF lines = <<>> THEN 0 ELSE Head(lines).debit + TotalDebit(Tail(lines))

RECURSIVE TotalCredit(_)
TotalCredit(lines) ==
  IF lines = <<>> THEN 0 ELSE Head(lines).credit + TotalCredit(Tail(lines))

\* TRUE when the entry passes; FALSE stands for the thrown Error.
ensureBalanced(entry) == TotalDebit(entry.lines) = TotalCredit(entry.lines)

\* generateId(): a fresh identifier; here the k-th id drawn by attempt
\* number a of job j.
generateId(j, a, k) == (j * 10000) + (a * 100) + k

\* The entries postLedgerEntries writes before it returns or throws: the
\* rows (journal header with its lines) and whether it threw.
RECURSIVE postLedgerEntries(_, _, _, _)
postLedgerEntries(entries, j, a, k) ==
  IF entries = <<>> THEN [rows |-> <<>>, threw |-> FALSE]
  ELSE LET entry == Head(entries) IN
       IF Len(entry.lines) = 0
       THEN postLedgerEntries(Tail(entries), j, a, k)
       ELSE IF ~ensureBalanced(entry)
       THEN [rows |-> <<>>, threw |-> TRUE]
       ELSE LET rest == postLedgerEntries(Tail(entries), j, a, k + 1)
                row == [entry_id |-> generateId(j, a, k),
                        tenant_id |-> TenantId,
                        program_id |-> entry.programId,
                        receipt_id |-> entry.receiptId,
                        memo |-> entry.memo,
                        lines |-> entry.lines]
            IN [rows |-> <<row>> \o rest.rows, threw |-> rest.threw]

\* SUM(cr) - SUM(dr) of an account in a unit.
RECURSIVE UnitDebits(_, _)
UnitDebits(lines, unit) ==
  IF lines = <<>> THEN 0
  ELSE (IF Head(lines).unit = unit THEN Head(lines).debit ELSE 0)
         + UnitDebits(Tail(lines), unit)

RECURSIVE UnitCredits(_, _)
UnitCredits(lines, unit) ==
  IF lines = <<>> THEN 0
  ELSE (IF Head(lines).unit = unit THEN Head(lines).credit ELSE 0)
         + UnitCredits(Tail(lines), unit)

RECURSIVE AccountNet(_, _, _)
AccountNet(lines, account, unit) ==
  IF lines = <<>> THEN 0
  ELSE (IF Head(lines).accountId = account /\ Head(lines).unit = unit
        THEN Head(lines).credit - Head(lines).debit ELSE 0)
         + AccountNet(Tail(lines), account, unit)

RECURSIVE Balance(_, _, _)
Balance(journal, account, unit) ==
  IF journal = {} THEN 0
  ELSE LET e == CHOOSE x \in journal : TRUE
       IN AccountNet(e.lines, account, unit)
            + Balance(journal \ {e}, account, unit)

(***************************************************************************)
(* Receipt plugin: DefaultEarn.                                            *)
(***************************************************************************)
\* Math.round(grand_total * multiplier), grand_total held in hundredths.
PointsEarned(receipt, config) ==
  LET multiplier == IF config.points_multiplier > 0
                    THEN config.points_multiplier ELSE 1
  IN ((receipt.grand_total_cents * multiplier) + 50) \div 100

defaultEarnPlugin(receipt, receiptId, config) ==
  LET points == PointsEarned(receipt, config) IN
  IF points <= 0
  THEN [entries |-> <<>>, summary |-> [kind |-> "earn", points_earned |-> 0]]
  ELSE [entries |-> <<
          [programId |-> DEFAULT_PROGRAM_ID,
           memo |-> <<"earn">> \o receipt.merchant_id,
           receiptId |-> receiptId,
           lines |-> <<
             [accountId |-> merchantAccountId(TenantId), debit |-> points,
              credit |-> 0, unit |-> DEFAULT_UNIT],
             [accountId |-> customerAccountId(TenantId, receipt.account_ref),
              debit |-> 0, credit |-> points, unit |-> DEFAULT_UNIT] >>] >>,
        summary |-> [kind |-> "earn", points_earned |-> points]]

(***************************************************************************)
(* Receipt plugin: NthFreeStamps.  config.stamp_programs holds the         *)
(* programs as parseStampPrograms returns them.  No customer_tiers row     *)
(* exists (no loyalty_tiers are configured), so currentTier is null and    *)
(* tier overrides do not apply.                                            *)
(***************************************************************************)
\* String.prototype.toLowerCase over the SKUs used here.
toLowerCase(s) ==
  CASE s = "LATTE" -> "latte"
    [] s = "Latte" -> "latte"
    [] s = "MOCHA" -> "mocha"
    [] OTHER -> s

\* Lines 214-228: the stamps the receipt's matching lines add.
RECURSIVE StampsToAdd(_, _, _)
StampsToAdd(line_items, skuSet, stampsPerItem) ==
  IF line_items = <<>> THEN 0
  ELSE LET line == Head(line_items)
           stampsForLine == line.qty * stampsPerItem
       IN (IF /\ toLowerCase(line.sku) \in skuSet
              /\ line.qty > 0
              /\ stampsForLine > 0
           THEN stampsForLine ELSE 0)
            + StampsToAdd(Tail(line_items), skuSet, stampsPerItem)

\* One stamp or coupon entry: the merchant is debited, the customer credited.
StampEntry(receipt, receiptId, memo, qty, unit) ==
  [programId |-> DEFAULT_PROGRAM_ID,
   memo |-> memo,
   receiptId |-> receiptId,
   lines |-> <<
     [accountId |-> merchantAccountId(TenantId), debit |-> qty, credit |-> 0,
      unit |-> unit],
     [accountId |-> customerAccountId(TenantId, receipt.account_ref),
      debit |-> 0, credit |-> qty, unit |-> unit] >>]

\* Lines 264-270: the coupons the new stamps earn.
CouponsEarned(program, previousBalance, stampsToAdd) ==
  IF ~IsNone(program.threshold) /\ program.threshold[1] > 0
  THEN ((previousBalance + stampsToAdd) \div program.threshold[1])
         - (previousBalance \div program.threshold[1])
  ELSE 0

\* Lines 242-296: what one program with stamps to add contributes, put in
\* front of what the later programs contribute.
StampProgramEntries(program, receipt, receiptId, stampsToAdd, earned, rest) ==
  IF stampsToAdd <= 0 THEN rest
  ELSE [entries |->
          <<StampEntry(receipt, receiptId, <<"stamps", program.id>>,
                       stampsToAdd,
                       IF IsNone(program.unit) THEN "stamps:" \o program.id
                       ELSE program.unit[1])>>
          \o (IF earned > 0
              THEN <<StampEntry(receipt, receiptId, <<"coupon", program.id>>,
                                earned,
                                IF IsNone(program.couponUnit)
                                THEN "coupon:" \o program.id
                                ELSE program.couponUnit[1])>>
              ELSE <<>>)
          \o rest.entries,
        stamps_added |->
          <<[id |-> program.id, n |-> stampsToAdd]>> \o rest.stamps_added,
        coupons_issued |->
          (IF earned > 0 THEN <<[id |-> program.id, n |-> earned]>>
           ELSE <<>>) \o rest.coupons_issued]

\* Lines 230-241: previousBalance is read once the program has stamps to add.
StampProgramStep(program, receipt, receiptId, journal, stampsToAdd, rest) ==
  StampProgramEntries(program, receipt, receiptId, stampsToAdd,
    CouponsEarned(program,
      Balance(journal, customerAccountId(TenantId, receipt.account_ref),
              IF IsNone(program.unit) THEN "stamps:" \o program.id
              ELSE program.unit[1]),
      stampsToAdd),
    rest)

\* Lines 199-297: the entries and summary items of the programs, in order.
\* journal is what getAccountBalance reads.
RECURSIVE StampEntries(_, _, _, _)
StampEntries(programs, receipt, receiptId, journal) ==
  IF programs = <<>>
  THEN [entries |-> <<>>, stamps_added |-> <<>>, coupons_issued |-> <<>>]
  ELSE StampProgramStep(Head(programs), receipt, receiptId, journal,
         StampsToAdd(receipt.line_items,
                     {toLowerCase(Head(programs).skus[i]) :
                        i \in DOMAIN Head(programs).skus},
                     Head(programs).stampsPerItem),
         StampEntries(Tail(programs), receipt, receiptId, journal))

\* Lines 299-316: the mutation, or None for the null the plugin returns.
StampMutation(r) ==
  IF r.entries = <<>> THEN None
  ELSE Some([entries |-> r.entries,
             summary |-> [kind |-> "stamps",
                          stamps_added |-> r.stamps_added,
                          coupons_issued |-> r.coupons_issued]])

nthFreeStampsPlugin(receipt, receiptId, config, journal) ==
  StampMutation(StampEntries(config.stamp_programs, receipt, receiptId,
                             journal))

(***************************************************************************)
(* Point lots: the queries of the lot store over a set of visible rows.    *)
(* lots is a function from lot_id to the lot row.                          *)
(***************************************************************************)
\* buildLookbackClause: created_at >= cutoff.  Test builds compute the
\* cutoff from the process clock, other builds from the statement's NOW().
buildLookbackClause(created_at, days, nowSql, nowJs, testEnv) ==
  created_at >= (IF testEnv THEN nowJs ELSE nowSql) - (days * DayMs)

NotExpired(lot, nowSql) ==
  IsNone(lot.expires_at) \/ lot.expires_at[1] > nowSql

\* ORDER BY expires_at NULLS LAST, created_at ASC (rows that tie are taken
\* in lot_id order).
LotBefore(a, b) ==
  LET ea == IF IsNone(a.expires_at) THEN <<1, 0>> ELSE <<0, a.expires_at[1]>>
      eb == IF IsNone(b.expires_at) THEN <<1, 0>> ELSE <<0, b.expires_at[1]>>
  IN \/ ea[1] < eb[1]
     \/ ea[1] = eb[1] /\ ea[2] < eb[2]
     \/ ea = eb /\ a.created_at < b.created_at
     \/ ea = eb /\ a.created_at = b.created_at /\ a.lot_id < b.lot_id

RECURSIVE SortLots(_)
SortLots(S) ==
  IF S = {} THEN <<>>
  ELSE LET first == CHOOSE a \in S : \A b \in S \ {a} : LotBefore(a, b)
       IN <<first>> \o SortLots(S \ {first})

\* The SELECT of consumeLots: eligible rows in consumption order.
\* merchantIds is None (no merchant clause) or Some(set of merchant ids).
ConsumeSelect(lots, args, merchantIds, options, nowSql, nowJs, testEnv) ==
  SortLots({lots[l] : l \in
    {l \in DOMAIN lots :
       /\ lots[l].tenant_id = TenantId
       /\ lots[l].customer_account = args.customerAccount
       /\ lots[l].program_id = args.programId
       /\ lots[l].unit = args.unit
       /\ (IsNone(merchantIds) \/ merchantIds[1] = {}
             \/ lots[l].merchant_id \in merchantIds[1])
       /\ lots[l].qty_remaining > 0
       /\ NotExpired(lots[l], nowSql)
       /\ (IsNone(options.globalExpiryDays) \/ options.globalExpiryDays[1] < 0
             \/ buildLookbackClause(lots[l].created_at,
                  options.globalExpiryDays[1], nowSql, nowJs, testEnv))
       /\ (IsNone(options.expiryOverrideDays)
             \/ options.expiryOverrideDays[1] < 0
             \/ buildLookbackClause(lots[l].created_at,
                  options.expiryOverrideDays[1], nowSql, nowJs, testEnv))}})

RECURSIVE SumRemaining(_)
SumRemaining(S) ==
  IF S = {} THEN 0
  ELSE LET x == CHOOSE y \in S : TRUE
       IN x.qty_remaining + SumRemaining(S \ {x})

sumEligibleLotBalance(lots, input, nowSql, nowJs, testEnv) ==
  SumRemaining({lots[l] : l \in
    {l \in DOMAIN lots :
       /\ lots[l].tenant_id = TenantId
       /\ lots[l].customer_account = input.customerAccount
       /\ lots[l].program_id = input.programId
       /\ lots[l].unit = input.unit
       /\ lots[l].merchant_id = input.merchantId
       /\ lots[l].qty_remaining > 0
       /\ NotExpired(lots[l], nowSql)
       /\ (IsNone(input.expiryDaysGlobal) \/ input.expiryDaysGlobal[1] <= 0
             \/ buildLookbackClause(lots[l].created_at,
                  input.expiryDaysGlobal[1], nowSql, nowJs, testEnv))
       /\ (IsNone(input.expiryOverrideDays)
             \/ input.expiryOverrideDays[1] < 0
             \/ buildLookbackClause(lots[l].created_at,
                  input.expiryOverrideDays[1], nowSql, nowJs, testEnv))}})

(***************************************************************************)
(* Redemption rules and attribution.                                       *)
(***************************************************************************)
\* rules: the sequence of merchant_redemption_rules rows.
RECURSIVE SelectSeqBy(_, _)
SelectSeqBy(s, keep) ==
  IF s = <<>> THEN <<>>
  ELSE (IF Head(s) \in keep THEN <<Head(s)>> ELSE <<>>)
         \o SelectSeqBy(Tail(s), keep)

\* The rules of the burn merchant, enabled or not.
loadRedemptionRulesAny(rules, burnMerchantId) ==
  IF IsNone(burnMerchantId) THEN <<>>
  ELSE SelectSeqBy(rules, {r \in Range(rules) :
         /\ r.tenant_id = TenantId
         /\ r.burn_merchant_id = burnMerchantId[1]})

loadRedemptionRules(rules, burnMerchantId) ==
  IF IsNone(burnMerchantId) THEN <<>>
  ELSE SelectSeqBy(rules, {r \in Range(rules) :
         /\ r.tenant_id = TenantId
         /\ r.burn_merchant_id = burnMerchantId[1]
         /\ r.enabled})

\* partnerMap[merchantId] of Object.fromEntries: the last pair wins.
RECURSIVE PartnerMapGet(_, _)
PartnerMapGet(partner_map, merchantId) ==
  IF partner_map = <<>> THEN None
  ELSE LET last == partner_map[Len(partner_map)] IN
       IF last.merchant_id = merchantId THEN Some(last.merchant_account)
       ELSE PartnerMapGet(SubSeq(partner_map, 1, Len(partner_map) - 1),
                          merchantId)

\* Adds amount to accountId in a sequence of [accountId, amount] kept in
\* first-insertion order (a JS Map).
MapAdd(results, accountId, amount) ==
  IF \E i \in DOMAIN results : results[i].accountId = accountId
  THEN [i \in DOMAIN results |->
          IF results[i].accountId = accountId
          THEN [results[i] EXCEPT !.amount = @ + amount] ELSE results[i]]
  ELSE Append(results, [accountId |-> accountId, amount |-> amount,
                        settlementAdjustmentBps |-> None])

\* The rows of the fallback query are the eligible lots grouped by
\* merchant_id; they are folded lot by lot in consumption order, which gives
\* the same sums.
RECURSIVE FallbackFold(_, _, _, _)
FallbackFold(rows, results, candidateAccounts, partnerMap) ==
  IF rows = <<>> THEN results
  ELSE LET row == Head(rows)
           merchantId == IF IsNone(row.merchant_id) THEN <<"">>
                         ELSE row.merchant_id
           mapped == PartnerMapGet(partnerMap, merchantId)
           accountId == IF ~IsNone(mapped) THEN mapped
                        ELSE IF Len(candidateAccounts) = 1
                        THEN Some(candidateAccounts[1]) ELSE None
       IN IF IsNone(accountId) \/ accountId[1] \notin Range(candidateAccounts)
          THEN FallbackFold(Tail(rows), results, candidateAccounts, partnerMap)
          ELSE FallbackFold(Tail(rows),
                 MapAdd(results, accountId[1], row.qty_remaining),
                 candidateAccounts, partnerMap)

fallbackOutstandingAttribution(lots, input, nowSql, nowJs, testEnv) ==
  FallbackFold(
    SortLots({lots[l] : l \in
      {l \in DOMAIN lots :
         /\ lots[l].tenant_id = TenantId
         /\ lots[l].customer_account = input.customerAccount
         /\ lots[l].program_id = DEFAULT_PROGRAM_ID
         /\ lots[l].unit = DEFAULT_UNIT
         /\ lots[l].qty_remaining > 0
         /\ NotExpired(lots[l], nowSql)
         /\ (IsNone(input.expiryDays) \/ input.expiryDays[1] <= 0
               \/ buildLookbackClause(lots[l].created_at, input.expiryDays[1],
                    nowSql, nowJs, testEnv))}}),
    <<>>, input.partnerAccounts, input.partnerMap)

RECURSIVE RuleAttribution(_, _, _, _, _, _, _, _)
RuleAttribution(ruleSet, partnerSet, lots, customerAccount, expiryDays, nowSql, nowJs, testEnv) ==
  IF ruleSet = <<>> THEN <<>>
  ELSE LET rule == Head(ruleSet)
           rest == RuleAttribution(Tail(ruleSet), partnerSet, lots,
                     customerAccount, expiryDays, nowSql, nowJs, testEnv)
           amount == sumEligibleLotBalance(lots,
                       [customerAccount |-> customerAccount,
                        merchantId |-> rule.earn_merchant_id,
                        programId |-> DEFAULT_PROGRAM_ID,
                        unit |-> DEFAULT_UNIT,
                        expiryDaysGlobal |-> expiryDays,
                        expiryOverrideDays |-> rule.expiry_days_override],
                       nowSql, nowJs, testEnv)
       IN IF rule.earn_merchant_account \notin partnerSet THEN rest
          ELSE IF amount > 0
          THEN <<[accountId |-> rule.earn_merchant_account,
                  amount |-> amount,
                  settlementAdjustmentBps |->
                    rule.settlement_adjustment_bps]>> \o rest
          ELSE rest

getOutstandingAttribution(lots, frozen, rules, customerAccount, options, nowSql, nowJs, testEnv) ==
  LET candidateAccounts ==
        SelectSeqBy(options.partnerAccounts,
                    Range(options.partnerAccounts) \ frozen)
      ruleSet == loadRedemptionRules(rules, options.burnMerchantId)
  IN IF candidateAccounts = <<>> THEN <<>>
     ELSE IF ruleSet = <<>>
     THEN IF ~IsNone(options.burnMerchantId) THEN <<>>
          ELSE fallbackOutstandingAttribution(lots,
                 [customerAccount |-> customerAccount,
                  partnerAccounts |-> candidateAccounts,
                  partnerMap |-> options.partnerMap,
                  expiryDays |-> options.expiryDays],
                 nowSql, nowJs, testEnv)
     ELSE RuleAttribution(ruleSet, Range(candidateAccounts), lots,
            customerAccount, options.expiryDays, nowSql, nowJs, testEnv)

(***************************************************************************)
(* Redeem plugin: DefaultRedeem and its allocation strategies.             *)
(***************************************************************************)
\* Array.prototype.sort with the comparator of proportionalByWeights:
\* stable, descending by rem.
RECURSIVE InsertByRem(_, _)
InsertByRem(sorted, f) ==
  IF sorted = <<>> THEN <<f>>
  ELSE IF Head(sorted).rem >= f.rem
  THEN <<Head(sorted)>> \o InsertByRem(Tail(sorted), f)
  ELSE <<f>> \o sorted

\* The floors left in input order.
SortByInput(floors) == floors

RECURSIVE SortByRem(_)
SortByRem(floors) ==
  IF floors = <<>> THEN <<>>
  ELSE InsertByRem(SortByRem(SubSeq(floors, 1, Len(floors) - 1)),
                   floors[Len(floors)])

RECURSIVE SumPositiveWeights(_)
SumPositiveWeights(partners) ==
  IF partners = <<>> THEN 0
  ELSE (IF Head(partners).weight > 0 THEN Head(partners).weight ELSE 0)
         + SumPositiveWeights(Tail(partners))

RECURSIVE SumField(_, _)
SumField(s, which) ==
  IF s = <<>> THEN 0
  ELSE (IF which = "floor" THEN Head(s).floor
        ELSE IF which = "weight" THEN Head(s).weight
        ELSE Head(s).amount) + SumField(Tail(s), which)

\* Every partner's floor, the remainder left out.
proportionalFloors(qty, partners) ==
  [i \in DOMAIN partners |->
     [accountId |-> partners[i].accountId,
      amount |-> (qty * partners[i].weight) \div SumField(partners, "weight")]]

proportionalByWeights(qty, partners) ==
  LET total == SumPositiveWeights(partners) IN
  IF total <= 0
  THEN <<[accountId |-> partners[1].accountId, amount |-> qty]>>
  ELSE LET floors == [i \in DOMAIN partners |->
                        [accountId |-> partners[i].accountId,
                         floor |-> (qty * partners[i].weight) \div total,
                         rem |-> (qty * partners[i].weight) % total]]
           remainder == qty - SumField(floors, "floor")
           sorted == SortByRem(floors)
           n == Len(sorted)
       IN [i \in DOMAIN sorted |->
             [accountId |-> sorted[i].accountId,
              amount |-> sorted[i].floor
                 + Cardinality({k \in 0..(remainder - 1) : (k % n) + 1 = i})]]

\* The proportional branch of determineAllocation: every partner but the
\* last takes floor(qty * weight / totalWeight), clamped at 0, and the last
\* takes what is left, again clamped; a final correction puts any
\* difference on the last line.
RECURSIVE ProportionalLines(_, _, _, _)
ProportionalLines(partners, pointsToBurn, totalWeight, allocated) ==
  IF partners = <<>> THEN <<>>
  ELSE LET partner == Head(partners)
           raw == IF Len(partners) = 1 THEN pointsToBurn - allocated
                  ELSE (pointsToBurn * partner.weight) \div totalWeight
           amount == IF raw < 0 THEN 0 ELSE raw
       IN <<[accountId |-> partner.accountId, amount |-> amount]>>
            \o ProportionalLines(Tail(partners), pointsToBurn, totalWeight,
                                 allocated + amount)

determineAllocation(tenantId, pointsToBurn, partners, strategy, partner_hint) ==
  IF partners = <<>>
  THEN <<[accountId |-> merchantAccountId(tenantId), amount |-> pointsToBurn]>>
  ELSE IF strategy = "priority" \/ ~IsNone(partner_hint)
  THEN LET hinted == IF IsNone(partner_hint) THEN {}
                     ELSE {i \in DOMAIN partners :
                             partners[i].accountId = partner_hint[1]}
           first == IF hinted = {} THEN 1
                    ELSE CHOOSE i \in hinted : \A k \in hinted : i <= k
       IN IF pointsToBurn <= 0 THEN <<>>
          ELSE <<[accountId |-> partners[first].accountId,
                  amount |-> pointsToBurn]>>
  ELSE IF strategy = "proportional"
  THEN LET totalWeight == SumField(partners, "weight") IN
       IF totalWeight <= 0
       THEN <<[accountId |-> partners[1].accountId, amount |-> pointsToBurn]>>
       ELSE LET lines == ProportionalLines(partners, pointsToBurn,
                                           totalWeight, 0)
                diff == pointsToBurn - SumField(lines, "amount")
            IN [i \in DOMAIN lines |->
                  IF i = Len(lines)
                  THEN [lines[i] EXCEPT !.amount = @ + diff] ELSE lines[i]]
  ELSE <<[accountId |-> partners[1].accountId, amount |-> pointsToBurn]>>

\* settlementAdjustments.get(accountId): the value the last attribution
\* entry of that account carries.
RECURSIVE SettlementBps(_, _)
SettlementBps(attribution, accountId) ==
  IF attribution = <<>> THEN None
  ELSE LET last == attribution[Len(attribution)] IN
       IF last.accountId = accountId THEN last.settlementAdjustmentBps
       ELSE SettlementBps(SubSeq(attribution, 1, Len(attribution) - 1),
                          accountId)

\* Redeem lines whose credits are booked in another unit than the debit.
RedeemLinesOtherUnit(customerAccount, pointsToBurn, allocation) ==
  <<[accountId |-> customerAccount, debit |-> pointsToBurn, credit |-> 0,
     unit |-> DEFAULT_UNIT]>>
  \o [i \in DOMAIN allocation |->
        [accountId |-> allocation[i].accountId, debit |-> 0,
         credit |-> allocation[i].amount, unit |-> "cents"]]

\* The ledger lines of the redeem entry: the customer debit, then one
\* credit per allocation item.
RedeemLines(customerAccount, pointsToBurn, allocation) ==
  <<[accountId |-> customerAccount, debit |-> pointsToBurn, credit |-> 0,
     unit |-> DEFAULT_UNIT]>>
  \o [i \in DOMAIN allocation |->
        [accountId |-> allocation[i].accountId, debit |-> 0,
         credit |-> allocation[i].amount, unit |-> DEFAULT_UNIT]]

\* A failure the processor is told it may retry.
FailureRetryable(reason, retryable) ==
  [type |-> "failure", reason |-> reason, retryable |-> TRUE]

Failure(reason, retryable) ==
  [type |-> "failure", reason |-> reason, retryable |-> retryable]

\* Lines 27-52: the partners of cross_brand_allocation as allocation inputs.
PartnerAccounts(config) ==
  IF config.cross_brand_allocation.present
  THEN [i \in DOMAIN config.cross_brand_allocation.partners |->
          [accountId |-> config.cross_brand_allocation.partners[i].merchant_account,
           weight |-> config.cross_brand_allocation.partners[i].weight]]
  ELSE <<>>

\* Every partner, frozen or not.
AllPartners(partnerAccounts, frozen) == partnerAccounts

\* Lines 36-52: the partners that are not frozen.
UnfrozenPartners(partnerAccounts, frozen) ==
  SelectSeqBy(partnerAccounts,
              {q \in Range(partnerAccounts) : q.accountId \notin frozen})

\* Lines 54-65: outstanding points attributed to the unfrozen partners.
PartnerAttribution(redeem, lots, config, frozen, rules, nowSql, nowJs, testEnv, unfrozenPartners) ==
  getOutstandingAttribution(lots, frozen, rules,
    customerAccountId(TenantId, redeem.account_id),
    [partnerAccounts |->
       IF unfrozenPartners # <<>>
       THEN [i \in DOMAIN unfrozenPartners |-> unfrozenPartners[i].accountId]
       ELSE <<merchantAccountId(TenantId)>>,
     partnerMap |-> IF config.cross_brand_allocation.present
                    THEN config.cross_brand_allocation.partner_map ELSE <<>>,
     expiryDays |-> IF config.cross_brand_allocation.present
                    THEN config.cross_brand_allocation.expiry_days ELSE None,
     burnMerchantId |-> redeem.burn_merchant_id],
    nowSql, nowJs, testEnv)

\* Lines 66-76: when nothing was attributed to a partner, all eligible lots.
GlobalAttribution(redeem, lots, frozen, rules, nowSql, nowJs, testEnv, attribution) ==
  IF attribution # <<>> THEN attribution
  ELSE getOutstandingAttribution(lots, frozen, rules,
         customerAccountId(TenantId, redeem.account_id),
         [partnerAccounts |-> <<merchantAccountId(TenantId)>>,
          partnerMap |-> <<>>,
          expiryDays |-> None,
          burnMerchantId |-> redeem.burn_merchant_id],
         nowSql, nowJs, testEnv)

\* Every attributed account with the same weight.
AttributionWeightsEqual(attribution) ==
  [i \in DOMAIN attribution |->
     [accountId |-> attribution[i].accountId, weight |-> 1]]

\* Attribution amounts as allocation weights.
AttributionWeights(attribution) ==
  [i \in DOMAIN attribution |->
     [accountId |-> attribution[i].accountId,
      weight |-> attribution[i].amount]]

\* Lines 92-135: the allocation under the configured strategy.
RedeemAllocation(redeem, allocationStrategy, unfrozenPartners, attribution) ==
  IF allocationStrategy = "source_proportional"
  THEN IF attribution = <<>> THEN <<>>
       ELSE proportionalByWeights(redeem.qty, AttributionWeights(attribution))
  ELSE determineAllocation(TenantId, redeem.qty,
         IF allocationStrategy = "proportional" /\ attribution # <<>>
         THEN AttributionWeights(attribution)
         ELSE unfrozenPartners,
         allocationStrategy, redeem.partner_hint)

\* Lines 84-181: the plugin's result from the balances and the allocation.
RedeemResult(redeem, attribution, globalAttribution, allocation) ==
  IF redeem.qty <= 0
  THEN Failure("Redemption quantity must be positive", FALSE)
  ELSE IF SumField(globalAttribution, "amount") < redeem.qty
  THEN Failure("Insufficient balance", FALSE)
  ELSE IF allocation = <<>>
  THEN Failure("No eligible merchants for redemption", FALSE)
  ELSE [type |-> "success",
        mutation |->
          [entries |-> <<
             [programId |-> DEFAULT_PROGRAM_ID,
              memo |-> IF IsNone(redeem.memo) THEN <<"redeem">>
                       ELSE redeem.memo[1],
              receiptId |-> None,
              lines |-> RedeemLines(
                          customerAccountId(TenantId, redeem.account_id),
                          redeem.qty, allocation)] >>,
           summary |->
             [kind |-> "redeem",
              points_redeemed |-> redeem.qty,
              allocation |->
                [i \in DOMAIN allocation |->
                   [merchant_account |-> allocation[i].accountId,
                    amount |-> allocation[i].amount,
                    settlement_adjustment_bps |->
                      SettlementBps(attribution, allocation[i].accountId)]],
              burn_merchant_id |-> redeem.burn_merchant_id]]]

\* The plugin once the partner attribution is known.
RedeemAttributed(redeem, lots, config, frozen, rules, nowSql, nowJs, testEnv, unfrozenPartners, attribution) ==
  RedeemResult(redeem, attribution,
    GlobalAttribution(redeem, lots, frozen, rules, nowSql, nowJs, testEnv,
                      attribution),
    RedeemAllocation(redeem,
      IF config.cross_brand_allocation.present
      THEN config.cross_brand_allocation.strategy ELSE "priority",
      unfrozenPartners, attribution))

\* The plugin once the unfrozen partners are known.
RedeemWithPartners(redeem, lots, config, frozen, rules, nowSql, nowJs, testEnv, unfrozenPartners) ==
  RedeemAttributed(redeem, lots, config, frozen, rules, nowSql, nowJs,
    testEnv, unfrozenPartners,
    PartnerAttribution(redeem, lots, config, frozen, rules, nowSql, nowJs,
                       testEnv, unfrozenPartners))

defaultRedeemPlugin(redeem, lots, config, frozen, rules, nowSql, nowJs, testEnv) ==
  RedeemWithPartners(redeem, lots, config, frozen, rules, nowSql, nowJs,
    testEnv, UnfrozenPartners(PartnerAccounts(config), frozen))

\* runRedeemPlugins over the one registered plugin: the plugin's result,
\* or null (None) when it does not handle the request.
runRedeemPlugins(redeem, lots, config, frozen, rules, nowSql, nowJs, testEnv) ==
  IF redeem.program_id = DEFAULT_PROGRAM_ID /\ redeem.unit = DEFAULT_UNIT
  THEN Some(defaultRedeemPlugin(redeem, lots, config, frozen, rules,
                                nowSql, nowJs, testEnv))
  ELSE None

(***************************************************************************)
(* Job processor: the pure parts of applyMutations, createPointLot,        *)
(* rescheduleOrFail, completeJobWithFailure and queueJobNotification.      *)
(***************************************************************************)
\* resolveExpiryDays of createPointLot: partner expiry through partner_map,
\* then earn_expiry_overrides, then earn_expiry_days_default.
RECURSIVE FindPartner(_, _)
FindPartner(partners, account) ==
  IF partners = <<>> THEN None
  ELSE IF Head(partners).merchant_account = account THEN Some(Head(partners))
  ELSE FindPartner(Tail(partners), account)

RECURSIVE FindOverride(_, _)
FindOverride(overrides, merchantId) ==
  IF overrides = <<>> THEN None
  ELSE IF Head(overrides).merchant_id = merchantId THEN Some(Head(overrides))
  ELSE FindOverride(Tail(overrides), merchantId)

resolveExpiryDays(config, merchantId) ==
  LET cross == config.cross_brand_allocation
      partnerAccount == IF cross.present
                        THEN PartnerMapGet(cross.partner_map, merchantId)
                        ELSE None
      partner == IF IsNone(partnerAccount) THEN None
                 ELSE FindPartner(cross.partners, partnerAccount[1])
      override == FindOverride(config.earn_expiry_overrides, merchantId)
  IN IF merchantId # <<>> /\ merchantId # <<"">>
     THEN IF ~IsNone(partner) /\ partner[1].has_expiry_days
          THEN partner[1].expiry_days
          ELSE IF ~IsNone(override) THEN override[1].expiry_days
          ELSE config.earn_expiry_days_default
     ELSE config.earn_expiry_days_default

createPointLot(lotId, programId, unit, customerAccount, merchantId, earnEntryId, qty, config, nowSql, nowJs, testEnv) ==
  LET expiryDays == resolveExpiryDays(config, merchantId) IN
  [lot_id |-> lotId,
   tenant_id |-> TenantId,
   program_id |-> programId,
   unit |-> unit,
   customer_account |-> customerAccount,
   merchant_id |-> merchantId,
   earn_entry_id |-> earnEntryId,
   qty_total |-> qty,
   qty_remaining |-> qty,
   expires_at |-> IF IsNone(expiryDays) THEN None
                  ELSE Some((IF testEnv THEN nowJs ELSE nowSql)
                              + (expiryDays[1] * DayMs)),
   created_at |-> nowSql]

\* entry.memo.split(':')[1] ?? null
MemoMerchantId(memo) == IF Len(memo) >= 2 THEN <<memo[2]>> ELSE <<>>

\* entry.memo.startsWith('earn:')
IsEarnMemo(memo) == Len(memo) >= 2 /\ memo[1] = "earn"

\* Lines 287-304 of applyMutations for one mutation: post the entries, then
\* create one lot per points credit line of every earn entry.  k0 is the
\* first free id index of the attempt.
ApplyEntries(mutation, j, a, k0, config, nowSql, nowJs, testEnv) ==
  LET posted == postLedgerEntries(mutation.entries, j, a, k0)
      entryIds == [i \in DOMAIN posted.rows |-> posted.rows[i].entry_id]
      earnLines == {<<i, n>> \in
                      (DOMAIN mutation.entries) \X (1..4) :
                        /\ IsEarnMemo(mutation.entries[i].memo)
                        /\ n \in DOMAIN mutation.entries[i].lines
                        /\ mutation.entries[i].lines[n].credit > 0
                        /\ mutation.entries[i].lines[n].unit = "points"}
      lotOf(p) ==
        LET entry == mutation.entries[p[1]]
            line == entry.lines[p[2]]
        IN createPointLot(generateId(j, a, 50 + k0 + (10 * p[1]) + p[2]),
             entry.programId, line.unit, line.accountId,
             MemoMerchantId(entry.memo),
             IF p[1] \in DOMAIN entryIds THEN Some(entryIds[p[1]]) ELSE None,
             line.credit, config, nowSql, nowJs, testEnv)
  IN [rows |-> Range(posted.rows),
      lots |-> IF posted.threw THEN {} ELSE {lotOf(p) : p \in earnLines},
      threw |-> posted.threw]

NullSummary == [kind |-> "null"]

\* The longest error text a row stores.
ErrorLimit == 1024

\* truncateError: message.slice(0, 1024) when the message is longer.
truncateError(message) ==
  IF Len(message) <= ErrorLimit THEN message
  ELSE SubSeq(message, 1, ErrorLimit)

\* A notification that stores the error text as it was thrown.
queueJobNotificationUntruncated(jobRow, jobType, attempt, status, summary, error) ==
  [notification_id |-> generateId(jobRow.job_id, attempt, 99),
   tenant_id |-> jobRow.tenant_id,
   job_type |-> jobType,
   job_id |-> jobRow.job_id,
   reference_id |-> jobRow.reference_id,
   status |-> status,
   summary |-> summary,
   error |-> error]

queueJobNotification(jobRow, jobType, attempt, status, summary, error) ==
  [notification_id |-> generateId(jobRow.job_id, attempt, 99),
   tenant_id |-> jobRow.tenant_id,
   job_type |-> jobType,
   job_id |-> jobRow.job_id,
   reference_id |-> jobRow.reference_id,
   status |-> status,
   summary |-> summary,
   error |-> IF error = NULL \/ error = "" THEN NULL
             ELSE truncateError(error)]

\* The delay rescheduleOrFail adds, without the cap.
delayMsUncapped(attempts) == attempts * BackoffStepMs

\* Math.min(60000, attempts * 5000)
delayMs(attempts) == Min(BackoffCapMs, attempts * BackoffStepMs)

\* rescheduleOrFail: the updated job row and the notifications it queues.
rescheduleOrFail(jobRow, jobType, attempts, error, nowJs, max) ==
  LET shouldRetry == attempts < max
      updated == [jobRow EXCEPT
                    !.status = IF shouldRetry THEN "pending" ELSE "failed",
                    !.available_at = IF shouldRetry
                                     THEN nowJs + delayMs(attempts)
                                     ELSE nowJs,
                    !.completed_at = IF shouldRetry THEN None ELSE Some(nowJs),
                    !.result_summary = NullSummary,
                    !.last_error = truncateError(error)]
  IN [job |-> updated,
      notifications |->
        IF shouldRetry THEN {}
        ELSE {queueJobNotification(jobRow, jobType, attempts, "failed",
                                   NullSummary, error)}]

completeJobWithFailure(jobRow, jobType, attempts, reason, nowSql) ==
  LET summary == [kind |-> "failure", failure |-> reason] IN
  [job |-> [jobRow EXCEPT !.status = "failed",
                          !.completed_at = Some(nowSql),
                          !.result_summary = summary,
                          !.last_error = truncateError(reason)],
   notifications |-> {queueJobNotification(jobRow, jobType, attempts, "failed",
                                           summary, reason)}]

\* The UPDATE ... SET status = 'completed' and its notification.
CompleteJob(jobRow, jobType, attempts, summary, nowSql) ==
  [job |-> [jobRow EXCEPT !.status = "completed",
                          !.completed_at = Some(nowSql),
                          !.result_summary = summary],
   notifications |-> {queueJobNotification(jobRow, jobType, attempts,
                                           "completed", summary, NULL)}]

\* The job marked processing without the attempt being counted.
MarkProcessingUncounted(jobRow) ==
  [jobRow EXCEPT !.status = "processing", !.last_error = NULL]

\* The UPDATE ... SET status = 'processing', attempts = attempts + 1.
MarkProcessing(jobRow) ==
  [jobRow EXCEPT !.status = "processing", !.attempts = @ + 1,
                 !.last_error = NULL]

\* What applyMutations has written after a mutation (first) and the ones
\* behind it (rest): a throw in first ends the loop.
ApplyRest(first, rest) ==
  IF first.threw THEN first
  ELSE [rows |-> first.rows \cup rest.rows,
        lots |-> first.lots \cup rest.lots,
        threw |-> rest.threw]

\* applyMutations over the mutations of a receipt: each one with entries is
\* posted and its lots created, in order, until one throws.
RECURSIVE ApplyMutations(_, _, _, _, _, _, _, _)
ApplyMutations(mutations, j, a, k0, config, nowSql, nowJs, testEnv) ==
  IF mutations = <<>> THEN [rows |-> {}, lots |-> {}, threw |-> FALSE]
  ELSE IF Head(mutations).entries = <<>>
  THEN ApplyMutations(Tail(mutations), j, a, k0, config, nowSql, nowJs,
                      testEnv)
  ELSE ApplyRest(
         ApplyEntries(Head(mutations), j, a, k0, config, nowSql, nowJs,
                      testEnv),
         ApplyMutations(Tail(mutations), j, a,
                        k0 + Len(Head(mutations).entries), config, nowSql,
                        nowJs, testEnv))

\* Object.assign over the summaries of the mutations.
ReceiptSummary(earn, stamps) ==
  [kind |-> "receipt",
   points_earned |-> earn.summary.points_earned,
   stamps_added |-> IF IsNone(stamps) THEN <<>>
                    ELSE stamps[1].summary.stamps_added,
   coupons_issued |-> IF IsNone(stamps) THEN <<>>
                      ELSE stamps[1].summary.coupons_issued]

\* What the transaction has written when the callback returns: the job row
\* and notifications of r, and the journal rows and lots.
AttemptOutcome(r, rows, lots) ==
  [job |-> r.job, journal |-> rows, lots |-> lots,
   notifications |-> r.notifications]

\* Lines 133-157: complete the job, or hand the error to rescheduleOrFail.
ReceiptApplied(jobRow, summary, applied, nowSql, nowJs, max) ==
  IF applied.threw
  THEN AttemptOutcome(
         rescheduleOrFail(jobRow, "receipt", jobRow.attempts,
                          "Ledger entry is not balanced", nowJs, max),
         applied.rows, applied.lots)
  ELSE AttemptOutcome(
         CompleteJob(jobRow, "receipt", jobRow.attempts, summary, nowSql),
         applied.rows, applied.lots)

\* Lines 131-132: apply the mutations the plugins returned (runPlugins
\* drops the nulls).
ReceiptMutations(jobRow, earn, stamps, config, nowSql, nowJs, testEnv, max) ==
  ReceiptApplied(jobRow, ReceiptSummary(earn, stamps),
    ApplyMutations(<<earn>> \o (IF IsNone(stamps) THEN <<>>
                                ELSE <<stamps[1]>>),
                   jobRow.job_id, jobRow.attempts, 0, config, nowSql, nowJs,
                   testEnv),
    nowSql, nowJs, max)

\* The message of the error a receipt plugin throws: 1038 characters.
Pad128 ==
  "................................................................"
    \o "................................................................"

Pad1024 ==
  Pad128 \o Pad128 \o Pad128 \o Pad128 \o Pad128 \o Pad128 \o Pad128
    \o Pad128

PluginError == "plugin error: " \o Pad1024

\* The body of processReceiptJob after the job row was marked processing:
\* load the receipt, run the receipt plugins, apply their mutations and
\* complete the job, or hand the error to rescheduleOrFail.  jobRow is the
\* row as marked, journal the journal rows the transaction sees.  The
\* program configs modelled carry no loyalty_tiers, so RollingSpendTier
\* returns null.
ReceiptAttempt(jobRow, receipt, config, journal, nowSql, nowJs, testEnv, max) ==
  IF IsNone(receipt)
  THEN AttemptOutcome(
         rescheduleOrFail(jobRow, "receipt", jobRow.attempts,
                          "Receipt payload missing", nowJs, max), {}, {})
  ELSE IF receipt[1].plugin_throws
  THEN AttemptOutcome(
         rescheduleOrFail(jobRow, "receipt", jobRow.attempts, PluginError,
                          nowJs, max), {}, {})
  ELSE ReceiptMutations(jobRow,
         defaultEarnPlugin(receipt[1], Some(jobRow.reference_id), config),
         nthFreeStampsPlugin(receipt[1], Some(jobRow.reference_id), config,
                             journal),
         config, nowSql, nowJs, testEnv, max)

(***************************************************************************)
(* State.                                                                  *)
(***************************************************************************)
VARIABLES
  now,                       \* the wall clock, in ms
  ticks,                     \* clock advances left
  env,                       \* CONFIG.env: "test" or "production"
  maxAttempts,               \* CONFIG.maxAttempts
  program_configs,           \* the default_points program config
  merchant_status,           \* the merchant accounts with frozen = TRUE
  merchant_redemption_rules, \* sequence of rule rows
  receipts,                  \* receipt_id -> payload
  redeem_requests,           \* request_id -> request row
  receipt_jobs,              \* job_id -> committed job row
  redeem_jobs,               \* job_id -> committed job row
  ledger_journal,            \* committed journal rows, each with its lines
  point_lots,                \* lot_id -> committed lot row
  job_notifications,         \* committed notification rows
  tx,                        \* per worker: its open transaction
  picks,                     \* job_id -> number of times it was selected
  calls,                     \* the ingress requests: their transactions and replies
  plugin_run,                \* a direct run of the redeem plugin: input and result
  notifier,                  \* the outbox dispatcher: its clock, rows and webhook
  payments                   \* the payments service: its tables and the PSP

vars == <<now, ticks, env, maxAttempts, program_configs, merchant_status,
          merchant_redemption_rules, receipts, redeem_requests, receipt_jobs,
          redeem_jobs, ledger_journal, point_lots, job_notifications, tx,
          picks, calls, plugin_run, notifier,
          payments>>

config_vars == <<env, maxAttempts, program_configs, merchant_status,
                 merchant_redemption_rules, receipts, redeem_requests, calls,
                 plugin_run, notifier,
          payments>>

db_vars == <<receipt_jobs, redeem_jobs, ledger_journal, point_lots,
             job_notifications>>

testEnv == env = "test"

\* A worker with no open transaction.
IdleTx ==
  [pc |-> "idle", table |-> "none", job |-> <<>>, nowSql |-> 0,
   journal |-> {}, lotsNew |-> {}, lotUpd |-> EmptyFn, notifications |-> {},
   items |-> <<>>, rows |-> <<>>, remaining |-> 0, summary |-> NullSummary]

NewJob(jobId, referenceId, createdAt) ==
  [job_id |-> jobId, tenant_id |-> TenantId, reference_id |-> referenceId,
   status |-> "pending", attempts |-> 0, last_error |-> NULL,
   result_summary |-> NullSummary, completed_at |-> None,
   available_at |-> createdAt, created_at |-> createdAt]

(***************************************************************************)
(* Initial states: a store as ingress and earlier runs of the processor    *)
(* leave it.  A scenario names the build, the configuration, the receipts  *)
(* already processed (seeds), and the pending receipt and redeem jobs.     *)
(***************************************************************************)
NoCrossBrand ==
  [present |-> FALSE, strategy |-> "priority", partners |-> <<>>,
   partner_map |-> <<>>, expiry_days |-> None]

\* No cross_brand_allocation; points earned at m2 expire after one day.
ConfigPlain ==
  [points_multiplier |-> 1,
   cross_brand_allocation |-> NoCrossBrand,
   earn_expiry_overrides |-> <<[merchant_id |-> <<"m2">>,
                                expiry_days |-> Some(1)]>>,
   earn_expiry_days_default |-> None,
   stamp_programs |-> <<>>]

\* Points as in ConfigPlain, and a stamp card: every second latte is free.
ConfigStamps ==
  [ConfigPlain EXCEPT
     !.stamp_programs = <<[id |-> "coffee", skus |-> <<"Latte">>,
                           threshold |-> Some(2), stampsPerItem |-> 1,
                           unit |-> None, couponUnit |-> None]>>]

\* Two partners under the priority strategy, one merchant each.
ConfigPriority ==
  [points_multiplier |-> 1,
   cross_brand_allocation |->
     [present |-> TRUE, strategy |-> "priority",
      partners |-> <<[merchant_account |-> "acctA", weight |-> 1,
                      has_expiry_days |-> FALSE, expiry_days |-> None],
                     [merchant_account |-> "acctB", weight |-> 1,
                      has_expiry_days |-> FALSE, expiry_days |-> None]>>,
      partner_map |-> <<[merchant_id |-> <<"m1">>, merchant_account |-> "acctA"],
                        [merchant_id |-> <<"m2">>, merchant_account |-> "acctB"]>>,
      expiry_days |-> None],
   earn_expiry_overrides |-> <<>>,
   earn_expiry_days_default |-> None,
   stamp_programs |-> <<>>]

\* cross_brand_allocation.strategy
Strategies == {"priority", "proportional", "source_proportional"}

\* The partners of ConfigPriority under another allocation strategy.
ConfigCross(strategy) ==
  [ConfigPriority EXCEPT !.cross_brand_allocation.strategy = strategy]

\* A receipt payload.  The receipts of one scenario are of different
\* merchants, and each carries the idempotency key of its merchant.
RcptWith(merchant, cents, throws, line_items) ==
  [idempotency_key |-> "key-" \o merchant,
   merchant_id |-> <<merchant>>, account_ref |-> "c1",
   grand_total_cents |-> cents, line_items |-> line_items,
   plugin_throws |-> throws]

Rcpt(merchant, cents, throws) == RcptWith(merchant, cents, throws, <<>>)

\* A redeem_requests row, and the attempts its job has already used.
Req(qty, unit, attempts) ==
  [request |-> [account_id |-> "c1", program_id |-> DEFAULT_PROGRAM_ID,
                unit |-> unit, qty |-> qty, memo |-> None,
                idempotency_key |-> None, burn_merchant_id |-> None],
   attempts |-> attempts]

\* A merchant_redemption_rules row: points earned at m1 (account acctA) may
\* be redeemed at burn.
Rule(burn, enabled) ==
  [tenant_id |-> TenantId, burn_merchant_id |-> burn,
   earn_merchant_id |-> <<"m1">>, earn_merchant_account |-> "acctA",
   enabled |-> enabled, expiry_days_override |-> None,
   settlement_adjustment_bps |-> None]

\* No rule, a rule for burn merchant m1, and that rule next to a disabled
\* rule for m9.
RuleSets ==
  {<<>>, <<Rule("m1", TRUE)>>, <<Rule("m1", TRUE), Rule("m9", FALSE)>>}

\* A redeem request made at a burn merchant.
ReqAt(qty, burn) ==
  [Req(qty, "points", 0) EXCEPT !.request.burn_merchant_id = Some(burn)]

Scenarios ==
  \* two redeems of one customer against two seeded lots
  {[env |-> "production", maxAttempts |-> 2, config |-> ConfigPlain,
    frozen |-> {},
    deleted |-> {},
    rules |-> <<>>,
    seeds |-> <<Rcpt("m1", 150, FALSE), Rcpt("m2", 150, FALSE)>>,
    receipts |-> <<>>,
    redeems |-> <<Req(q1, "points", 0), Req(q2, "points", 0)>>,
    ticks |-> 1] : q1 \in 1..MaxQty, q2 \in 1..MaxQty}
  \cup
  \* receipts and a redeem on an empty store
  {[env |-> e, maxAttempts |-> 2, config |-> ConfigStamps,
    frozen |-> {},
    deleted |-> {},
    rules |-> <<>>,
    seeds |-> <<>>,
    receipts |-> <<RcptWith("m1", 250, FALSE,
                            <<[sku |-> "LATTE", qty |-> 3],
                              [sku |-> "mocha", qty |-> 1]>>),
                   Rcpt("m2", 100, TRUE)>>,
    redeems |-> <<Req(q1, "points", 0)>>,
    ticks |-> 1] : q1 \in 1..MaxQty, e \in {"production", "test"}}
  \cup
  \* a cross-brand redeem against one lot per partner
  {[env |-> "production", maxAttempts |-> 2, config |-> ConfigPriority,
    frozen |-> {},
    deleted |-> {},
    rules |-> <<>>,
    seeds |-> <<Rcpt("m1", 100, FALSE), Rcpt("m2", 100, FALSE)>>,
    receipts |-> <<>>,
    redeems |-> <<Req(q1, "points", 0)>>,
    ticks |-> 1] : q1 \in 1..MaxQty}
  \cup
  \* a request no plugin handles, late in its retries
  {[env |-> "test", maxAttempts |-> 14, config |-> ConfigPlain,
    frozen |-> {},
    deleted |-> {},
    rules |-> <<>>,
    seeds |-> <<>>,
    receipts |-> <<>>,
    redeems |-> <<Req(1, "stamps", 11)>>,
    ticks |-> MaxTicks]}
  \cup
  \* a cross-brand redeem under each strategy with partners frozen
  {[env |-> "test", maxAttempts |-> 2, config |-> ConfigCross(strategy),
    frozen |-> frozen,
    deleted |-> {},
    rules |-> <<>>,
    seeds |-> <<Rcpt("m1", 150, FALSE), Rcpt("m2", 150, FALSE)>>,
    receipts |-> <<>>,
    redeems |-> <<Req(q1, "points", 0)>>,
    ticks |-> 1] :
     strategy \in Strategies, q1 \in 1..MaxQty,
     frozen \in (SUBSET {"acctA", "acctB"}) \ {{}}}
  \cup
  \* two receipts with lattes of one customer under the stamp card
  {[env |-> "production", maxAttempts |-> 2, config |-> ConfigStamps,
    frozen |-> {},
    deleted |-> {},
    rules |-> <<>>,
    seeds |-> <<>>,
    receipts |-> <<RcptWith("m1", 100, FALSE,
                            <<[sku |-> "LATTE", qty |-> lattes]>>),
                   RcptWith("m2", 100, FALSE,
                            <<[sku |-> "LATTE", qty |-> 1]>>)>>,
    redeems |-> <<>>,
    ticks |-> 1] : lattes \in {1, 2}}
  \cup
  \* a receipt of the merchant with the id "shop:1"
  {[env |-> "production", maxAttempts |-> 2, config |-> ConfigPlain,
    frozen |-> {},
    deleted |-> {},
    rules |-> <<>>,
    seeds |-> <<>>,
    receipts |-> <<[Rcpt("shop", cents, FALSE) EXCEPT
                      !.merchant_id = <<"shop", "1">>]>>,
    redeems |-> <<>>,
    ticks |-> 1] : cents \in {100, 250}}
  \cup
  \* a receipt job whose receipt row is gone, next to one whose row is there
  {[env |-> "production", maxAttempts |-> 2, config |-> ConfigPlain,
    frozen |-> {},
    deleted |-> {1},
    rules |-> <<>>,
    seeds |-> <<>>,
    receipts |-> <<Rcpt("m1", 100, FALSE), Rcpt("m2", 100, FALSE)>>,
    redeems |-> <<>>,
    ticks |-> 1]}
  \cup
  \* a redeem at a burn merchant, with and without redemption rules
  {[env |-> "production", maxAttempts |-> 2, config |-> config,
    frozen |-> {},
    deleted |-> {},
    rules |-> rules,
    seeds |-> <<Rcpt("m1", 150, FALSE), Rcpt("m2", 150, FALSE)>>,
    receipts |-> <<>>,
    redeems |-> <<ReqAt(q1, burn)>>,
    ticks |-> 1] :
     config \in {ConfigPlain, ConfigPriority}, rules \in RuleSets,
     burn \in {"m1", "m9"}, q1 \in 1..MaxQty}

\* Seed i was ingested at time i and processed, alone, at time 10 + i.
SeedOutcome(sc, i) ==
  ReceiptAttempt(MarkProcessing(NewJob(i, 100 + i, i)), Some(sc.seeds[i]),
                 sc.config, {}, 10 + i, 10 + i, sc.env = "test",
                 sc.maxAttempts)

\* The store of scenario sc, seeded[i] being what seed i's run committed.
\* The receipts of sc.deleted have their job but no receipts row.
InitStore(sc, seeded) ==
  LET ns == Len(sc.seeds)
      nr == Len(sc.receipts)
      nd == Len(sc.redeems)
      seedIds == 1..ns
      rcptIds == (ns + 1)..(ns + nr)
      rdmIds == (ns + nr + 1)..(ns + nr + nd)
      seedLots == UNION {seeded[i].lots : i \in seedIds}
  IN /\ now = 100
     /\ ticks = sc.ticks
     /\ env = sc.env
     /\ maxAttempts = sc.maxAttempts
     /\ program_configs = sc.config
     /\ merchant_status = sc.frozen
     /\ merchant_redemption_rules = sc.rules
     /\ receipts = [j \in (seedIds \cup rcptIds)
                             \ {ns + d : d \in sc.deleted} |->
                      IF j \in seedIds THEN sc.seeds[j]
                      ELSE sc.receipts[j - ns]]
     /\ redeem_requests = [j \in rdmIds |-> sc.redeems[j - ns - nr].request]
     /\ receipt_jobs = [j \in seedIds \cup rcptIds |->
                          IF j \in seedIds THEN seeded[j].job
                          ELSE NewJob(j, 100 + j, j)]
     /\ redeem_jobs = [j \in rdmIds |->
                         LET r == sc.redeems[j - ns - nr] IN
                         IF r.attempts = 0 THEN NewJob(j, 100 + j, j)
                         ELSE [NewJob(j, 100 + j, j) EXCEPT
                                 !.attempts = r.attempts,
                                 !.last_error =
                                   "No redeem plugin accepted the request"]]
     /\ ledger_journal = UNION {seeded[i].journal : i \in seedIds}
     /\ point_lots = [l \in {x.lot_id : x \in seedLots} |->
                        CHOOSE x \in seedLots : x.lot_id = l]
     /\ job_notifications =
          UNION {seeded[i].notifications : i \in seedIds}
     /\ tx = [w \in Workers |-> IdleTx]
     /\ picks = [j \in seedIds \cup rcptIds \cup rdmIds |->
                   IF j \in seedIds THEN 1
                   ELSE IF j \in rdmIds THEN sc.redeems[j - ns - nr].attempts
                   ELSE 0]

InitFrom(sc) ==
  InitStore(sc, [i \in DOMAIN sc.seeds |-> SeedOutcome(sc, i)])

\* No ingress request is in flight and the plugin is not run on its own.
NoCalls == <<>>

NoRun == [kind |-> "none"]

\* The outbox dispatcher is not run.
NoNotifier == [kind |-> "none"]

\* The payments service is not run.
NoPayments == [kind |-> "none"]

Init ==
  /\ \E sc \in Scenarios : InitFrom(sc)
  /\ calls = NoCalls
  /\ notifier = NoNotifier
  /\ payments = NoPayments
  /\ plugin_run = NoRun

(***************************************************************************)
(* What a statement of worker w's transaction reads, and the row locks.    *)
(***************************************************************************)
\* Committed lots and the lots w inserted, with w's own updates applied.
VisibleLots(w) ==
  LET own == tx[w].lotsNew
      ids == DOMAIN point_lots \cup {x.lot_id : x \in own}
      base(l) == IF l \in DOMAIN point_lots THEN point_lots[l]
                 ELSE CHOOSE x \in own : x.lot_id = l
  IN [l \in ids |->
        IF l \in DOMAIN tx[w].lotUpd
        THEN [base(l) EXCEPT !.qty_remaining = tx[w].lotUpd[l]]
        ELSE base(l)]

\* Another transaction holds the row lock of lot l.
LotLockedByOther(w, l) ==
  \E v \in Workers \ {w} : l \in DOMAIN tx[v].lotUpd

\* The worker holding job j, if any.
Holders(j) == {v \in Workers : tx[v].job # <<>> /\ tx[v].job[1].job_id = j}

\* Single-writer test builds run one worker.  The workers run the same
\* loop, so behaviours that differ only in which idle worker polls next are
\* the same up to renaming: the idle worker of the lowest number polls.
WorkerRuns(w) ==
  /\ env = "production" \/ w = 1
  /\ \A v \in Workers : v < w => tx[v].pc # "idle"

\* A WHERE clause that takes a job of any status once it is due.
JobIsDueAnyStatus(jobRow) == jobRow.available_at <= now

\* WHERE status = 'pending' AND available_at <= NOW()
JobIsDue(jobRow) ==
  /\ jobRow.status = "pending"
  /\ jobRow.available_at <= now

\* A select that waits for no lock and skips no row.
NoSkipLocked(j, w) == TRUE

\* FOR UPDATE SKIP LOCKED, which test builds leave out.
SkipLocked(j, w) == testEnv \/ Holders(j) \subseteq {w}

\* createReceiptJobSelectSql / createRedeemJobSelectSql: the oldest due
\* pending job; outside test builds rows locked by others are skipped.
JobSelect(jobs, w) ==
  LET due == {j \in DOMAIN jobs : JobIsDue(jobs[j]) /\ SkipLocked(j, w)}
  IN {j \in due : \A k \in due : jobs[j].created_at <= jobs[k].created_at}

\* A receipt select of a loop that looks at the redeem jobs first: no
\* receipt job while a redeem job can be selected.
createReceiptJobSelectSqlAfterRedeem(w) ==
  IF JobSelect(redeem_jobs, w) # {} THEN {} ELSE JobSelect(receipt_jobs, w)

createReceiptJobSelectSql(w) == JobSelect(receipt_jobs, w)

createRedeemJobSelectSql(w) ==
  {j \in JobSelect(redeem_jobs, w) :
     redeem_jobs[j].reference_id - 100 \in DOMAIN redeem_requests}

\* The transaction has written its last statement; COMMIT is next.
Finish(t, outcome) ==
  [t EXCEPT !.pc = "commit",
            !.job = Some(outcome.job),
            !.notifications = @ \cup outcome.notifications,
            !.items = <<>>, !.rows = <<>>, !.remaining = 0]

(***************************************************************************)
(* Actions.                                                                *)
(***************************************************************************)
\* processReceiptJob, lines 84-106: BEGIN, select the job, mark it.
PickReceipt(w) ==
  /\ WorkerRuns(w)
  /\ tx[w].pc = "idle"
  /\ \E j \in createReceiptJobSelectSql(w) :
       /\ tx' = [tx EXCEPT ![w] =
                   [IdleTx EXCEPT !.pc = "picked", !.table = "receipt_jobs",
                                  !.job = Some(MarkProcessing(receipt_jobs[j])),
                                  !.nowSql = now]]
       /\ picks' = [picks EXCEPT ![j] = @ + 1]
  /\ UNCHANGED <<now, ticks, config_vars, db_vars>>

\* The callback returns: its writes are in the transaction.
ReceiptFinish(t, out) ==
  Finish([t EXCEPT !.journal = out.journal, !.lotsNew = out.lots], out)

\* processReceiptJob, lines 108-159: the rest of the callback.
ProcessReceipt(w) ==
  /\ tx[w].pc = "picked"
  /\ tx[w].table = "receipt_jobs"
  /\ tx' = [tx EXCEPT ![w] =
       ReceiptFinish(@,
         ReceiptAttempt(@.job[1],
           IF @.job[1].reference_id - 100 \in DOMAIN receipts
           THEN Some(receipts[@.job[1].reference_id - 100]) ELSE None,
           program_configs, ledger_journal \cup @.journal,
           @.nowSql, now, testEnv, maxAttempts))]
  /\ UNCHANGED <<now, ticks, config_vars, db_vars, picks>>

\* processNextJob then processRedeemJob, lines 164-186: no receipt job was
\* selected, so the redeem job is selected and marked.
PickRedeem(w) ==
  /\ WorkerRuns(w)
  /\ tx[w].pc = "idle"
  /\ createReceiptJobSelectSql(w) = {}
  /\ \E j \in createRedeemJobSelectSql(w) :
       /\ tx' = [tx EXCEPT ![w] =
                   [IdleTx EXCEPT !.pc = "picked", !.table = "redeem_jobs",
                                  !.job = Some(MarkProcessing(redeem_jobs[j])),
                                  !.nowSql = now]]
       /\ picks' = [picks EXCEPT ![j] = @ + 1]
  /\ UNCHANGED <<now, ticks, config_vars, db_vars>>

\* byAccount of consumePointLotsForRedemption: the merchant ids partner_map
\* maps to the account.
MerchantsOfAccount(partner_map, account) ==
  {partner_map[i].merchant_id : i \in
     {i \in DOMAIN partner_map : partner_map[i].merchant_account = account}}

\* ruleSet.byAccount.get(account): the last rule of that account.
RECURSIVE RuleOfAccount(_, _)
RuleOfAccount(ruleSet, account) ==
  IF ruleSet = <<>> THEN None
  ELSE LET last == ruleSet[Len(ruleSet)] IN
       IF last.earn_merchant_account = account THEN Some(last)
       ELSE RuleOfAccount(SubSeq(ruleSet, 1, Len(ruleSet) - 1), account)

\* consumePointLotsForRedemption up to its calls of consumeLots: the
\* sequence of consumeLots calls it is going to make.
ConsumptionItems(mutation, config, rules) ==
  LET debits == {<<i, n>> \in (DOMAIN mutation.entries) \X (1..4) :
                   /\ n \in DOMAIN mutation.entries[i].lines
                   /\ mutation.entries[i].lines[n].debit > 0
                   /\ mutation.entries[i].lines[n].unit = "points"}
      \* every customer account id holds "::acct::"; partner accounts do not
      first == CHOOSE p \in debits : \A q \in debits :
                 p[1] < q[1] \/ (p[1] = q[1] /\ p[2] <= q[2])
      args(amount) ==
        [customerAccount |-> mutation.entries[first[1]].lines[first[2]].accountId,
         programId |-> mutation.entries[first[1]].programId,
         unit |-> "points",
         amount |-> amount]
      cross == config.cross_brand_allocation
      globalExpiryDays ==
        IF cross.present /\ ~IsNone(cross.expiry_days)
             /\ cross.expiry_days[1] >= 0
        THEN cross.expiry_days ELSE None
      allocation == mutation.summary.allocation
      ruleSet == loadRedemptionRules(rules, mutation.summary.burn_merchant_id)
      itemOf(item) ==
        LET rule == RuleOfAccount(ruleSet, item.merchant_account)
            mapped == IF cross.present
                      THEN MerchantsOfAccount(cross.partner_map,
                                              item.merchant_account)
                      ELSE {}
        IN [args |-> args(item.amount),
            merchantIds |-> IF ~IsNone(rule)
                            THEN Some({rule[1].earn_merchant_id})
                            ELSE IF mapped = {} THEN None ELSE Some(mapped),
            options |-> [globalExpiryDays |-> globalExpiryDays,
                         expiryOverrideDays |->
                           IF ~IsNone(rule) THEN rule[1].expiry_days_override
                           ELSE None]]
  IN IF debits = {} THEN <<>>
     ELSE IF allocation = <<>>
     THEN IF mutation.summary.points_redeemed > 0
          THEN <<[args |-> args(mutation.summary.points_redeemed),
                  merchantIds |-> None,
                  options |-> [globalExpiryDays |-> globalExpiryDays,
                               expiryOverrideDays |-> None]]>>
          ELSE <<>>
     ELSE [i \in DOMAIN allocation |-> itemOf(allocation[i])]

\* The catch block of processRedeemJob.
RedeemCatch(t, error) ==
  Finish(t, rescheduleOrFail(t.job[1], "redeem", t.job[1].attempts, error,
                             now, maxAttempts))

\* Lines 224-237 of processRedeemJob.
RedeemComplete(t) ==
  Finish(t, CompleteJob(t.job[1], "redeem", t.job[1].attempts, t.summary,
                        t.nowSql))

\* consumeLots was entered for the first item of t.items, or every item is
\* done and the job completes.
NextItem(t) ==
  IF t.items = <<>> THEN RedeemComplete(t)
  ELSE [t EXCEPT !.pc = "select", !.rows = <<>>, !.remaining = 0]

\* Lines 222-241 once the entries are posted: an unbalanced entry is caught,
\* otherwise lot consumption is entered.
RedeemPosted(t, mutation, applied) ==
  IF applied.threw
  THEN RedeemCatch([t EXCEPT !.journal = applied.rows,
                             !.lotsNew = applied.lots,
                             !.summary = mutation.summary],
                   "Ledger entry is not balanced")
  ELSE NextItem([t EXCEPT !.journal = applied.rows,
                          !.lotsNew = applied.lots,
                          !.summary = mutation.summary,
                          !.items =
                            ConsumptionItems(mutation, program_configs,
                                             merchant_redemption_rules)])

\* Lines 207-241: what the transaction does with the plugin's result.
RedeemOutcome(t, result) ==
  IF IsNone(result)
  THEN RedeemCatch(t, "No redeem plugin accepted the request")
  ELSE IF result[1].type = "failure"
  THEN IF result[1].retryable
       THEN RedeemCatch(t, result[1].reason)
       ELSE Finish(t, completeJobWithFailure(t.job[1], "redeem",
                        t.job[1].attempts, result[1].reason, t.nowSql))
  ELSE RedeemPosted(t, result[1].mutation,
         ApplyEntries(result[1].mutation, t.job[1].job_id, t.job[1].attempts,
                      0, program_configs, t.nowSql, now, testEnv))

\* Lines 188-196: the request handed to the plugins; partner_hint is not
\* among the columns read.
RedeemRequest(row) ==
  [account_id |-> row.account_id,
   program_id |-> row.program_id,
   unit |-> row.unit,
   qty |-> row.qty,
   memo |-> row.memo,
   idempotency_key |-> row.idempotency_key,
   burn_merchant_id |-> row.burn_merchant_id,
   partner_hint |-> None]

\* processRedeemJob, lines 188-222: build the request, run the redeem
\* plugin, post the journal entry, and enter lot consumption.
RunRedeem(w) ==
  /\ tx[w].pc = "picked"
  /\ tx[w].table = "redeem_jobs"
  /\ tx' = [tx EXCEPT ![w] =
       RedeemOutcome(@,
         runRedeemPlugins(
           RedeemRequest(redeem_requests[@.job[1].reference_id - 100]),
           VisibleLots(w), program_configs, merchant_status,
           merchant_redemption_rules, @.nowSql, now, testEnv))]
  /\ UNCHANGED <<now, ticks, config_vars, db_vars, picks>>

\* consumeLots, lines 468-510: the SELECT of the eligible lots.
ConsumeLotsSelect(w) ==
  /\ tx[w].pc = "select"
  /\ LET t == tx[w]
         item == Head(t.items)
         rows == ConsumeSelect(VisibleLots(w), item.args, item.merchantIds,
                               item.options, t.nowSql, now, testEnv)
     IN tx' = [tx EXCEPT ![w] =
          IF item.args.amount <= 0
          THEN NextItem([t EXCEPT !.items = Tail(@)])
          ELSE IF rows = <<>>
          THEN RedeemCatch(t,
                 "Insufficient eligible points in lots to cover redemption")
          ELSE [t EXCEPT !.pc = "update", !.rows = rows,
                         !.remaining = item.args.amount]]
  /\ UNCHANGED <<now, ticks, config_vars, db_vars, picks>>

\* An UPDATE of the lot row without the qty_remaining >= $2 condition.
UpdateLotRowUnguarded(latest, consume) == Some(latest - consume)

\* UPDATE point_lots SET qty_remaining = qty_remaining - $2
\*  WHERE lot_id = $1 AND qty_remaining >= $2: the new qty_remaining, or
\* None when the row no longer satisfies the condition.
UpdateLotRow(latest, consume) ==
  IF latest >= consume THEN Some(latest - consume) ELSE None

\* consumeLots, lines 512-530: one pass of the loop over the selected rows.
\* The UPDATE waits for the row lock, then decrements the row only if its
\* latest qty_remaining still covers the amount; the number of rows it
\* changed is not looked at.
ConsumeLotsUpdate(w) ==
  /\ tx[w].pc = "update"
  /\ LET t == tx[w]
         row == Head(t.rows)
         consume == Min(row.qty_remaining, t.remaining)
         remaining == t.remaining - consume
         latest == VisibleLots(w)[row.lot_id].qty_remaining
         after == [t EXCEPT
                     !.remaining = remaining,
                     !.rows = Tail(@),
                     !.lotUpd =
                       LET updated == UpdateLotRow(latest, consume) IN
                       IF IsNone(updated) THEN @
                       ELSE (row.lot_id :> updated[1]) @@ @]
     IN /\ ~LotLockedByOther(w, row.lot_id)
        /\ tx' = [tx EXCEPT ![w] =
             IF remaining <= 0
             THEN NextItem([after EXCEPT !.items = Tail(@)])
             ELSE IF Tail(t.rows) = <<>>
             THEN RedeemCatch(after,
                    "Insufficient eligible points in lots to cover redemption")
             ELSE after]
  /\ UNCHANGED <<now, ticks, config_vars, db_vars, picks>>

\* withTransaction, line 50: COMMIT makes the transaction's rows visible
\* and releases its locks.
Commit(w) ==
  /\ tx[w].pc = "commit"
  /\ LET t == tx[w]
         jobRow == t.job[1]
         visible == VisibleLots(w)
     IN /\ receipt_jobs' = IF t.table = "receipt_jobs"
                           THEN [receipt_jobs EXCEPT ![jobRow.job_id] = jobRow]
                           ELSE receipt_jobs
        /\ redeem_jobs' = IF t.table = "redeem_jobs"
                          THEN [redeem_jobs EXCEPT ![jobRow.job_id] = jobRow]
                          ELSE redeem_jobs
        /\ ledger_journal' = ledger_journal \cup t.journal
        /\ point_lots' = visible
        /\ job_notifications' = job_notifications \cup t.notifications
  /\ tx' = [tx EXCEPT ![w] = IdleTx]
  /\ UNCHANGED <<now, ticks, config_vars, picks>>

\* The attempts started so far that a rollback has undone, over the jobs S.
RECURSIVE LostAttempts(_)
LostAttempts(S) ==
  IF S = {} THEN 0
  ELSE LET j == CHOOSE x \in S : TRUE
           counted == IF Holders(j) = {}
                      THEN (receipt_jobs @@ redeem_jobs)[j].attempts
                      ELSE tx[CHOOSE v \in Holders(j) : TRUE].job[1].attempts
       IN (picks[j] - counted) + LostAttempts(S \ {j})

\* A statement of the open transaction fails in the store.  Inside the try
\* block the catch calls rescheduleOrFail on the same, now failed,
\* transaction, whose UPDATE fails too; withTransaction (lines 52-54) rolls
\* back and rethrows, and run() logs the error and sleeps.
\* A worker process that dies with its transaction open has the same effect
\* on the store: its connection closes and PostgreSQL rolls the transaction
\* back; w then stands for the worker that is started in its place.
StoreError(w) ==
  /\ tx[w].pc \in {"picked", "select", "update", "commit"}
  /\ LostAttempts(DOMAIN picks) < MaxStoreErrors
  /\ tx' = [tx EXCEPT ![w] = IdleTx]
  /\ UNCHANGED <<now, ticks, config_vars, db_vars, picks>>

\* Time passes: a backoff step, the backoff cap, or a day.
Tick ==
  /\ ticks > 0
  /\ \E d \in {BackoffStepMs, BackoffCapMs, DayMs} : now' = now + d
  /\ ticks' = ticks - 1
  /\ UNCHANGED <<config_vars, db_vars, tx, picks>>

Next ==
  \/ \E w \in Workers : PickReceipt(w)
  \/ \E w \in Workers : ProcessReceipt(w)
  \/ \E w \in Workers : PickRedeem(w)
  \/ \E w \in Workers : RunRedeem(w)
  \/ \E w \in Workers : ConsumeLotsSelect(w)
  \/ \E w \in Workers : ConsumeLotsUpdate(w)
  \/ \E w \in Workers : Commit(w)
  \/ \E w \in Workers : StoreError(w)
  \/ Tick

Spec == Init /\ [][Next]_vars

(***************************************************************************)
(* Quantities derived from the committed store.                            *)
(***************************************************************************)
Customer == customerAccountId(TenantId, "c1")

LotsOf(lots, account) ==
  {lots[l] : l \in {l \in DOMAIN lots : lots[l].customer_account = account}}

RECURSIVE SumQty(_, _)
SumQty(jobs, S) ==
  IF S = {} THEN 0
  ELSE LET j == CHOOSE x \in S : TRUE
       IN redeem_requests[jobs[j].reference_id - 100].qty
            + SumQty(jobs, S \ {j})

CompletedRedeems == {j \in DOMAIN redeem_jobs : redeem_jobs[j].status = "completed"}

Terminal(status) == status \in {"completed", "failed"}

\* The committed job rows of both tables (job ids are unique across them).
AllJobs == receipt_jobs @@ redeem_jobs

\* Worker w takes the step that ends its transaction.
Ends(w) == tx[w].pc = "commit" /\ tx'[w].pc = "idle"

\* The customer credit (or debit) lines of a set of journal rows.
RECURSIVE SumCredits(_, _, _)
SumCredits(journal, account, unit) ==
  IF journal = {} THEN 0
  ELSE LET e == CHOOSE x \in journal : TRUE
           own == SelectSeq(e.lines, LAMBDA l : l.accountId = account)
       IN UnitCredits(own, unit) + SumCredits(journal \ {e}, account, unit)

(***************************************************************************)
(* C1.  Processing a job is all-or-nothing: when an attempt does not       *)
(* complete the job, the end of its transaction leaves the journal and     *)
(* the lots as they were; only the job row (and a failed notification)     *)
(* changes.                                                                *)
(***************************************************************************)
C1_AllOrNothing ==
  [][\A w \in Workers :
       (Ends(w) /\ tx[w].job[1].status # "completed")
         => /\ ledger_journal' = ledger_journal
            /\ point_lots' = point_lots]_vars

(***************************************************************************)
(* C2.  Whatever the interleaving of the workers, the quantities of the    *)
(* completed redeem jobs of the customer never total more than the points  *)
(* the customer was credited; so of two redeems that together exceed the   *)
(* balance at most one completes.                                          *)
(***************************************************************************)
C2_NoOverdraw ==
  SumQty(redeem_jobs, CompletedRedeems)
    <= SumCredits(ledger_journal, Customer, "points")

(***************************************************************************)
(* C3.  Lot conservation: the qty_remaining of the customer's lots sums to *)
(* the customer's points balance, and, where partner_map attributes every  *)
(* merchant to an account, the lots of a merchant sum to what was earned   *)
(* at the merchant minus what redemptions credited to its account.         *)
(***************************************************************************)
EarnedAt(journal, m) ==
  SumCredits({e \in journal : e.memo = <<"earn">> \o m}, Customer, "points")

ConsumedAt(journal, m) ==
  LET account == PartnerMapGet(program_configs.cross_brand_allocation.partner_map, m)
  IN IF IsNone(account) THEN 0
     ELSE SumCredits({e \in journal : ~IsEarnMemo(e.memo)}, account[1],
                     "points")

C3_LotConservation ==
  /\ SumRemaining(LotsOf(point_lots, Customer))
       = Balance(ledger_journal, Customer, "points")
  /\ program_configs.cross_brand_allocation.present
       => \A m \in {point_lots[l].merchant_id : l \in DOMAIN point_lots} :
            SumRemaining({x \in LotsOf(point_lots, Customer) :
                            x.merchant_id = m})
              = EarnedAt(ledger_journal, m) - ConsumedAt(ledger_journal, m)

(***************************************************************************)
(* C4.  Terminal jobs stay terminal: once the committed status of a job    *)
(* of either table is completed or failed, no step of any worker changes   *)
(* it, and no worker ever holds such a job.                                *)
(***************************************************************************)
C4_TerminalIsFinal ==
  /\ [](\A j \in DOMAIN AllJobs :
          Terminal(AllJobs[j].status) => Holders(j) = {})
  /\ [][\A j \in DOMAIN AllJobs :
          Terminal(AllJobs[j].status)
            => /\ j \in DOMAIN AllJobs'
               /\ AllJobs'[j].status = AllJobs[j].status]_vars

\* A failed job and a job completed in this run, while a worker is about
\* to commit yet another job.
C4_Witness ==
  /\ \E j \in DOMAIN AllJobs :
       AllJobs[j].status = "failed" /\ picks[j] = maxAttempts
  /\ \E j \in DOMAIN AllJobs :
       AllJobs[j].status = "completed" /\ AllJobs[j].created_at > 0
         /\ \E w \in Workers : tx[w].pc = "commit"

(***************************************************************************)
(* C5.  Every journal entry the system writes, committed or still inside   *)
(* a transaction, is balanced in each unit it touches: per unit, its       *)
(* debits sum to its credits.                                              *)
(***************************************************************************)
EntryBalancedPerUnit(e) ==
  \A i \in DOMAIN e.lines :
    UnitDebits(e.lines, e.lines[i].unit) = UnitCredits(e.lines, e.lines[i].unit)

WrittenEntries == ledger_journal \cup UNION {tx[w].journal : w \in Workers}

C5_EntriesBalanced == \A e \in WrittenEntries : EntryBalancedPerUnit(e)

\* The journal holds an earn, a stamp, a coupon and a redeem entry.
C5_Witness ==
  \A kind \in {"earn", "stamps", "coupon", "redeem"} :
    \E e \in ledger_journal : e.memo[1] = kind

(***************************************************************************)
(* C6.  FIFO consumption: when a transaction decrements lot B, every lot A *)
(* of the same scope that is eligible and strictly before B in             *)
(* (expires_at NULLS LAST, created_at) has reached qty_remaining 0.        *)
(***************************************************************************)
LotStrictlyBefore(a, b) ==
  \/ ~IsNone(a.expires_at) /\ IsNone(b.expires_at)
  \/ /\ ~IsNone(a.expires_at) /\ ~IsNone(b.expires_at)
     /\ a.expires_at[1] < b.expires_at[1]
  \/ a.expires_at = b.expires_at /\ a.created_at < b.created_at

\* Lots a redemption draws from together: one customer, program and unit,
\* and one merchant where partner_map scopes consumption by merchant.
SameScope(a, b) ==
  /\ a.tenant_id = b.tenant_id
  /\ a.customer_account = b.customer_account
  /\ a.program_id = b.program_id
  /\ a.unit = b.unit
  /\ \/ a.merchant_id = b.merchant_id
     \/ ~program_configs.cross_brand_allocation.present

C6_Fifo ==
  [][\A w \in Workers : Ends(w) =>
       \A a \in DOMAIN point_lots, b \in DOMAIN point_lots :
         (/\ SameScope(point_lots[a], point_lots[b])
          /\ LotStrictlyBefore(point_lots[a], point_lots[b])
          /\ NotExpired(point_lots[a], tx[w].nowSql)
          /\ point_lots'[b].qty_remaining < point_lots[b].qty_remaining)
           => point_lots'[a].qty_remaining = 0]_vars

Reschedules(w) ==
  /\ tx[w].pc \notin {"idle", "commit"}
  /\ tx'[w].pc = "commit"
  /\ tx'[w].job[1].status # "completed"
  /\ tx'[w].job[1].result_summary = NullSummary

C9_BoundedPicks == \A j \in DOMAIN picks : picks[j] <= maxAttempts

(***************************************************************************)
(* C10.  Lot bounds: 0 <= qty_remaining <= qty_total in every lot row,     *)
(* committed or as a transaction sees it; qty_remaining never increases,   *)
(* and no lot row is ever deleted.                                         *)
(***************************************************************************)
LotInBounds(lot) ==
  0 <= lot.qty_remaining /\ lot.qty_remaining <= lot.qty_total

C10_LotBounds ==
  /\ [](/\ \A l \in DOMAIN point_lots : LotInBounds(point_lots[l])
        /\ \A w \in Workers : \A l \in DOMAIN VisibleLots(w) :
             LotInBounds(VisibleLots(w)[l]))
  /\ [][\A l \in DOMAIN point_lots :
          /\ l \in DOMAIN point_lots'
          /\ point_lots'[l].qty_total = point_lots[l].qty_total
          /\ point_lots'[l].qty_remaining <= point_lots[l].qty_remaining]_vars

\* One lot is used up, another partly, and a transaction's UPDATE has just
\* found a row that no longer covers the amount it selected.
C10_Witness ==
  /\ \E l \in DOMAIN point_lots : point_lots[l].qty_remaining = 0
  /\ \E l \in DOMAIN point_lots :
       /\ 0 < point_lots[l].qty_remaining
       /\ point_lots[l].qty_remaining < point_lots[l].qty_total
  /\ \E w \in Workers :
       /\ tx[w].pc = "update"
       /\ Head(tx[w].rows).qty_remaining
            > VisibleLots(w)[Head(tx[w].rows).lot_id].qty_remaining

(***************************************************************************)
(* Ingress: POST /v1/receipts and POST /v1/redeem.  A request runs one     *)
(* transaction: look for an earlier row of the same key, insert the row    *)
(* and its job, commit.                                                    *)
(***************************************************************************)
NumCalls == 3

CallIds == 1..NumCalls

\* grand_total.toFixed(2)
toFixed2(cents) ==
  ToString(cents \div 100) \o "."
    \o (IF cents % 100 < 10 THEN "0" ELSE "") \o ToString(cents % 100)

\* computeReceiptFingerprint: the SHA-256 digest of the fields fed to the
\* hash one after the other, written as the bytes fed.  The payloads
\* modelled carry no store_id and no processor_txn_id and share issued_at.
computeReceiptFingerprint(tenantId, receipt) ==
  tenantId \o receipt.idempotency_key
    \o (IF IsNone(receipt.merchant_id) THEN "" ELSE receipt.merchant_id[1])
    \o receipt.account_ref
    \o toFixed2(receipt.grand_total_cents)

\* The ids a request draws from generateId(): the job id, and the id of the
\* receipt or redeem request.
IngressJobId(c) == c

IngressRowId(c) == 100 + c

\* UNIQUE (tenant_id, idempotency_key), UNIQUE (tenant_id, fingerprint) of
\* receipts, and the partial unique index of redeem_requests: row and body
\* cannot both be stored.
SameReceipt(row, body) ==
  \/ row.idempotency_key = body.idempotency_key
  \/ computeReceiptFingerprint(TenantId, row)
       = computeReceiptFingerprint(TenantId, body)

SameRedeem(row, body) ==
  /\ ~IsNone(body.idempotency_key)
  /\ row.idempotency_key = body.idempotency_key

\* The SELECT that opens the transaction: the committed rows of the key
\* (for a receipt: of the key or of the fingerprint).
ExistingRows(call) ==
  IF call.kind = "receipt"
  THEN {j \in DOMAIN receipts : SameReceipt(receipts[j], call.body)}
  ELSE {j \in DOMAIN redeem_requests :
          SameRedeem(redeem_requests[j], call.body)}

\* SELECT job_id, status ... ORDER BY created_at DESC LIMIT 1: the job ids
\* that query may return for row j.
LatestJobs(kind, j) ==
  LET jobs == IF kind = "receipt" THEN receipt_jobs ELSE redeem_jobs
      mine == {k \in DOMAIN jobs : jobs[k].reference_id = 100 + j}
  IN {k \in mine : \A m \in mine : jobs[m].created_at <= jobs[k].created_at}

\* reply.code(409): the existing row and its job, when it has one.
DuplicateReply(kind, j, k) ==
  [code |-> 409, id |-> Some(100 + j), processing_job_id |-> k,
   status |-> IF IsNone(k) THEN "queued"
              ELSE (IF kind = "receipt" THEN receipt_jobs
                    ELSE redeem_jobs)[k[1]].status]

\* reply.code(202)
AcceptedReply(c) ==
  [code |-> 202, id |-> Some(IngressRowId(c)),
   processing_job_id |-> Some(IngressJobId(c)), status |-> "queued"]

\* reply.code(500), from the catch around withTransaction.
FailedReply ==
  [code |-> 500, id |-> None, processing_job_id |-> None, status |-> "error"]

NoReply ==
  [code |-> 0, id |-> None, processing_job_id |-> None, status |-> "none"]

\* Lines 158-180 (receipts) and 47-71 (redeem): the lookup, and the 409 when
\* a row is found.
IngressSelect(c) ==
  /\ calls[c].pc = "start"
  /\ IF ExistingRows(calls[c]) = {}
     THEN calls' = [calls EXCEPT ![c].pc = "insert"]
     ELSE \E j \in ExistingRows(calls[c]) :
            \E k \in IF LatestJobs(calls[c].kind, j) = {} THEN {None}
                     ELSE {Some(x) : x \in LatestJobs(calls[c].kind, j)} :
              calls' = [calls EXCEPT
                          ![c].pc = "done",
                          ![c].reply = DuplicateReply(calls[c].kind, j, k)]
  /\ UNCHANGED <<now, ticks, env, maxAttempts, program_configs,
                 merchant_status, merchant_redemption_rules, receipts,
                 redeem_requests, payments, plugin_run, notifier,
                 db_vars, tx, picks>>

\* Another open transaction has inserted a row that conflicts with c's.
InsertBlocked(c) ==
  \E d \in CallIds \ {c} :
    /\ calls[d].pc = "commit"
    /\ calls[d].kind = calls[c].kind
    /\ IF calls[c].kind = "receipt"
       THEN SameReceipt(calls[d].body, calls[c].body)
       ELSE SameRedeem(calls[d].body, calls[c].body)

\* The two INSERTs.  The first waits for an open transaction that inserted a
\* conflicting row; against a committed one it fails on the unique index,
\* withTransaction rolls back and the route replies 500.
IngressInsert(c) ==
  /\ calls[c].pc = "insert"
  /\ ~InsertBlocked(c)
  /\ calls' = IF ExistingRows(calls[c]) # {}
              THEN [calls EXCEPT ![c].pc = "done", ![c].reply = FailedReply]
              ELSE [calls EXCEPT ![c].pc = "commit"]
  /\ UNCHANGED <<now, ticks, env, maxAttempts, program_configs,
                 merchant_status, merchant_redemption_rules, receipts,
                 redeem_requests, payments, plugin_run, notifier,
                 db_vars, tx, picks>>

\* COMMIT, then reply.code(202).
IngressCommit(c) ==
  /\ calls[c].pc = "commit"
  /\ IF calls[c].kind = "receipt"
     THEN /\ receipts' = (IngressJobId(c) :> calls[c].body) @@ receipts
          /\ receipt_jobs' =
               (IngressJobId(c) :>
                  NewJob(IngressJobId(c), IngressRowId(c), now))
                 @@ receipt_jobs
          /\ UNCHANGED <<redeem_requests, redeem_jobs>>
     ELSE /\ redeem_requests' = (IngressJobId(c) :> calls[c].body)
                                  @@ redeem_requests
          /\ redeem_jobs' =
               (IngressJobId(c) :>
                  NewJob(IngressJobId(c), IngressRowId(c), now))
                 @@ redeem_jobs
          /\ UNCHANGED <<receipts, receipt_jobs>>
  /\ calls' = [calls EXCEPT ![c].pc = "done", ![c].reply = AcceptedReply(c)]
  /\ UNCHANGED <<now, ticks, env, maxAttempts, program_configs,
                 merchant_status, merchant_redemption_rules, plugin_run,
                 notifier, payments,
                 ledger_journal, point_lots, job_notifications, tx, picks>>

\* The requests sent: receipts under two keys and two totals, redemptions
\* with and without a key.
CallInputs ==
  {[kind |-> "receipt",
    body |-> [Rcpt("m1", cents, FALSE) EXCEPT !.idempotency_key = key],
    pc |-> "start", reply |-> NoReply] :
     key \in {"k1", "k2"}, cents \in {100, 250}}
  \cup
  {[kind |-> "redeem",
    body |-> [Req(1, "points", 0).request EXCEPT !.idempotency_key = key],
    pc |-> "start", reply |-> NoReply] :
     key \in {None, Some("k1")}}

\* An empty store with no job to process.
EmptyScenario ==
  [env |-> "production", maxAttempts |-> 2, config |-> ConfigPlain,
   frozen |-> {},
   deleted |-> {},
   rules |-> <<>>,
   seeds |-> <<>>, receipts |-> <<>>, redeems |-> <<>>, ticks |-> 0]

InitIngress ==
  /\ InitFrom(EmptyScenario)
  /\ calls \in [CallIds -> CallInputs]
  /\ notifier = NoNotifier
  /\ payments = NoPayments
  /\ plugin_run = NoRun

NextIngress ==
  \/ \E c \in CallIds : IngressSelect(c)
  \/ \E c \in CallIds : IngressInsert(c)
  \/ \E c \in CallIds : IngressCommit(c)

SpecIngress == InitIngress /\ [][NextIngress]_vars

\* The idempotency key of a request, when it carries one.
CallKey(call) ==
  IF call.kind = "receipt" THEN Some(call.body.idempotency_key)
  ELSE call.body.idempotency_key

\* The answered requests of c's kind and key.
SameKeyDone(c) ==
  {d \in CallIds : /\ calls[d].pc = "done"
                   /\ calls[d].kind = calls[c].kind
                   /\ CallKey(calls[d]) = CallKey(calls[c])}

\* C11: requests of one (tenant, idempotency_key), in sequence or at the
\* same time, leave one receipt (or redeem request) row with one job, and
\* every reply names that row and that job: one 202, and a 409 for every
\* duplicate.
C11_IdempotentIngress ==
  \A c \in CallIds :
    (calls[c].pc = "done" /\ ~IsNone(CallKey(calls[c]))) =>
      /\ calls[c].reply.code \in {202, 409}
      /\ Cardinality({d \in SameKeyDone(c) : calls[d].reply.code = 202}) = 1
      /\ \A d \in SameKeyDone(c) :
           /\ calls[d].reply.id = calls[c].reply.id
           /\ calls[d].reply.processing_job_id
                = calls[c].reply.processing_job_id
      /\ Cardinality(ExistingRows(calls[c])) = 1
      /\ \A j \in ExistingRows(calls[c]) :
           Cardinality(LatestJobs(calls[c].kind, j)) = 1

(***************************************************************************)
(* Job notifications.                                                      *)
(***************************************************************************)
\* The committed notification rows of job j.
NotificationsOf(j) == {n \in job_notifications : n.job_id = j}

\* C12: a job has one notification row when its committed status is
\* completed or failed and none otherwise (none, then, for a job that was
\* only rescheduled); the row appears with the terminal status write,
\* carries that status and, for a failed job, the error message cut to 1024
\* characters.
C12_OneNotificationPerTerminalJob ==
  \A j \in DOMAIN AllJobs :
    IF Terminal(AllJobs[j].status)
    THEN /\ Cardinality(NotificationsOf(j)) = 1
         /\ \A n \in NotificationsOf(j) :
              /\ n.status = AllJobs[j].status
              /\ AllJobs[j].status = "failed" =>
                   /\ n.error = AllJobs[j].last_error
                   /\ Len(n.error) <= ErrorLimit
    ELSE NotificationsOf(j) = {}

\* A job failed on a plugin error longer than 1024 characters and was
\* notified with its first 1024 characters, after it had been rescheduled
\* once without a notification; another job completed.
C12_Witness ==
  /\ \E j \in DOMAIN receipt_jobs :
       /\ receipt_jobs[j].status = "failed"
       /\ receipt_jobs[j].attempts = 2
       /\ \E n \in NotificationsOf(j) :
            /\ n.status = "failed"
            /\ Len(PluginError) > ErrorLimit
            /\ n.error = SubSeq(PluginError, 1, ErrorLimit)
  /\ \E j \in DOMAIN AllJobs :
       /\ AllJobs[j].status = "completed"
       /\ \E n \in NotificationsOf(j) : n.status = "completed"

(***************************************************************************)
(* Redemptions the balance does not cover.                                 *)
(***************************************************************************)
\* The request of the redeem job worker w holds.
RequestOf(w) ==
  RedeemRequest(redeem_requests[tx[w].job[1].reference_id - 100])

\* The eligible balance the redeem plugin attributes for w's request: the
\* attribution over the unfrozen partners or, when that is empty, over the
\* tenant's liability account.
AttributedBalance(w) ==
  LET unfrozen == UnfrozenPartners(PartnerAccounts(program_configs),
                                   merchant_status)
      attribution ==
        PartnerAttribution(RequestOf(w), VisibleLots(w), program_configs,
                           merchant_status, merchant_redemption_rules,
                           tx[w].nowSql, now, testEnv, unfrozen)
  IN SumField(GlobalAttribution(RequestOf(w), VisibleLots(w), merchant_status,
                                merchant_redemption_rules, tx[w].nowSql, now,
                                testEnv, attribution),
              "amount")

\* Worker w runs the redeem plugin on a points request of a positive qty.
RunsPlugin(w) ==
  /\ tx[w].pc = "picked"
  /\ tx[w].table = "redeem_jobs"
  /\ tx'[w].pc \in {"select", "commit"}
  /\ RequestOf(w).program_id = DEFAULT_PROGRAM_ID
  /\ RequestOf(w).unit = DEFAULT_UNIT
  /\ RequestOf(w).qty > 0

InsufficientSummary == [kind |-> "failure", failure |-> "Insufficient balance"]

\* C13: the attempt of a redeem job that finds the attributed eligible
\* balance below qty ends the job failed, without a reschedule, with
\* last_error "Insufficient balance" and result_summary
\* {failure: "Insufficient balance"}; the attempt writes no journal entry,
\* changes no lot and queues one failed notification with that error.
C13_InsufficientBalanceFails ==
  [][\A w \in Workers :
       (RunsPlugin(w) /\ AttributedBalance(w) < RequestOf(w).qty) =>
         /\ tx'[w].pc = "commit"
         /\ tx'[w].job[1].status = "failed"
         /\ tx'[w].job[1].attempts = tx[w].job[1].attempts
         /\ tx'[w].job[1].last_error = "Insufficient balance"
         /\ tx'[w].job[1].result_summary = InsufficientSummary
         /\ tx'[w].journal = {}
         /\ tx'[w].lotsNew = {}
         /\ tx'[w].lotUpd = EmptyFn
         /\ Cardinality(tx'[w].notifications) = 1
         /\ \A n \in tx'[w].notifications :
              /\ n.status = "failed"
              /\ n.error = "Insufficient balance"
              /\ n.job_id = tx[w].job[1].job_id]_vars

\* A redeem job has failed on its first attempt for want of balance, and its
\* one notification is committed with it; the journal holds no redeem entry
\* of that job.
C13_Witness ==
  \E j \in DOMAIN redeem_jobs :
    /\ redeem_jobs[j].status = "failed"
    /\ redeem_jobs[j].attempts = 1
    /\ redeem_jobs[j].last_error = "Insufficient balance"
    /\ redeem_jobs[j].result_summary = InsufficientSummary
    /\ redeem_requests[redeem_jobs[j].reference_id - 100].qty > 0
    /\ \E n \in NotificationsOf(j) : n.error = "Insufficient balance"
    /\ \A e \in ledger_journal : e.entry_id \div 10000 # j

(***************************************************************************)
(* Frozen partners.                                                        *)
(***************************************************************************)
\* The partner accounts of cross_brand_allocation.
ConfiguredPartners ==
  {PartnerAccounts(program_configs)[i].accountId :
     i \in DOMAIN PartnerAccounts(program_configs)}

\* Partners are configured and every one of them is frozen.
AllPartnersFrozen ==
  /\ ConfiguredPartners # {}
  /\ ConfiguredPartners \subseteq merchant_status

\* C14: with every configured partner frozen the redemption fails with
\* "Insufficient balance": the attempt ends the job failed with that error,
\* posts no entry (so nothing is credited to another account) and consumes
\* no lot.
C14_AllFrozenIsInsufficient ==
  [][\A w \in Workers :
       (RunsPlugin(w) /\ AllPartnersFrozen) =>
         /\ tx'[w].pc = "commit"
         /\ tx'[w].job[1].status = "failed"
         /\ tx'[w].job[1].last_error = "Insufficient balance"
         /\ tx'[w].journal = {}
         /\ tx'[w].lotUpd = EmptyFn]_vars

(***************************************************************************)
(* The redeem plugin and its allocation functions on their own: the plugin *)
(* applied to a request (which may carry a partner_hint) on a store, and   *)
(* proportionalByWeights and determineAllocation applied to a list of      *)
(* partners.                                                               *)
(***************************************************************************)
MaxWeight == 3

\* Partners without a partner_map, weighted 1 and 3: no lot is attributed
\* to a partner, and the proportional strategy falls back on the weights.
ConfigUnmapped(strategy) ==
  [ConfigCross(strategy) EXCEPT
     !.cross_brand_allocation.partner_map = <<>>,
     !.cross_brand_allocation.partners[2].weight = 3]

\* Stores for the plugin: the customer's points at m1 and at m2, the frozen
\* accounts, the strategy.
PluginScenarios ==
  {[env |-> "production", maxAttempts |-> 2, config |-> config,
    frozen |-> frozen,
    deleted |-> {},
    rules |-> <<>>,
    seeds |-> <<Rcpt("m1", cents[1], FALSE), Rcpt("m2", cents[2], FALSE)>>,
    receipts |-> <<>>, redeems |-> <<>>, ticks |-> 0] :
     config \in {ConfigCross(s) : s \in Strategies}
                  \cup {ConfigUnmapped(s) : s \in Strategies},
     frozen \in SUBSET {"acctA", "acctB"},
     cents \in {<<10000, 10000>>, <<10000, 30000>>, <<150, 150>>}}

\* The quantities asked for.
Quantities == (1..MaxQty) \cup {20, 21, 50}

PartnerHints == {None, Some("acctA"), Some("acctB")}

\* The request the plugin is applied to.
PluginRequest(qty, hint) ==
  [RedeemRequest(Req(qty, "points", 0).request) EXCEPT !.partner_hint = hint]

\* Lists of up to three partners with weights 1..MaxWeight, and the two
\* lists of the examples.
RECURSIVE PartnerLists(_)
PartnerLists(n) ==
  IF n = 0 THEN {<<>>}
  ELSE LET shorter == PartnerLists(n - 1)
           names == <<"acctA", "acctB", "acctC">>
       IN shorter \cup
          {Append(p, [accountId |-> names[n], weight |-> weight]) :
             p \in {q \in shorter : Len(q) = n - 1}, weight \in 1..MaxWeight}

AllocationInputs ==
  {[kind |-> "allocate", qty |-> qty, partners |-> partners,
    strategy |-> strategy, hint |-> hint,
    byWeights |-> None, allocation |-> None] :
     qty \in Quantities,
     partners \in PartnerLists(3)
       \cup {<<[accountId |-> "acctA", weight |-> 100],
               [accountId |-> "acctB", weight |-> w]>> : w \in {100, 300}},
     strategy \in {"priority", "proportional"},
     hint \in PartnerHints \cup {Some("acctX")}}

InitPlugin ==
  /\ calls = NoCalls
  /\ notifier = NoNotifier
  /\ payments = NoPayments
  /\ \/ /\ \E sc \in PluginScenarios : InitFrom(sc)
        /\ \E qty \in Quantities, hint \in PartnerHints :
             plugin_run = [kind |-> "redeem",
                           redeem |-> PluginRequest(qty, hint),
                           result |-> None]
     \/ /\ InitFrom(EmptyScenario)
        /\ plugin_run \in AllocationInputs

\* runRedeemPlugins applied to the request on the committed store.
ApplyRedeemPlugin ==
  /\ plugin_run.kind = "redeem"
  /\ IsNone(plugin_run.result)
  /\ plugin_run' =
       [plugin_run EXCEPT !.result =
          Some(runRedeemPlugins(plugin_run.redeem, point_lots,
                                program_configs, merchant_status,
                                merchant_redemption_rules, now, now,
                                testEnv))]
  /\ UNCHANGED <<now, ticks, env, maxAttempts, program_configs,
                 merchant_status, merchant_redemption_rules, receipts,
                 redeem_requests, payments, calls, notifier, db_vars,
                 tx, picks>>

\* proportionalByWeights and determineAllocation applied to the partners;
\* the plugin calls proportionalByWeights on a non-empty list only.
Allocate ==
  /\ plugin_run.kind = "allocate"
  /\ IsNone(plugin_run.allocation)
  /\ plugin_run' =
       [plugin_run EXCEPT
          !.byWeights =
            IF plugin_run.partners = <<>> THEN None
            ELSE Some(proportionalByWeights(plugin_run.qty,
                                            plugin_run.partners)),
          !.allocation =
            Some(determineAllocation(TenantId, plugin_run.qty,
                                     plugin_run.partners,
                                     plugin_run.strategy, plugin_run.hint))]
  /\ UNCHANGED <<now, ticks, env, maxAttempts, program_configs,
                 merchant_status, merchant_redemption_rules, receipts,
                 redeem_requests, payments, calls, notifier, db_vars,
                 tx, picks>>

NextPlugin == ApplyRedeemPlugin \/ Allocate

SpecPlugin == InitPlugin /\ [][NextPlugin]_vars

(***************************************************************************)
(* Claims on the allocation of a redemption.                               *)
(***************************************************************************)
\* The plugin has been applied to the request.
PluginDone == plugin_run.kind = "redeem" /\ ~IsNone(plugin_run.result)

PluginResult == plugin_run.result[1][1]

PluginStrategy == program_configs.cross_brand_allocation.strategy

\* The attribution the plugin computes for its request on the store.
PluginAttribution ==
  PartnerAttribution(plugin_run.redeem, point_lots, program_configs,
                     merchant_status, merchant_redemption_rules, now, now,
                     testEnv,
                     UnfrozenPartners(PartnerAccounts(program_configs),
                                      merchant_status))

\* The allocation functions have been applied to the partner list.
AllocateDone == plugin_run.kind = "allocate" /\ ~IsNone(plugin_run.allocation)

\* The amount an allocation gives to an account.
AmountOf(allocation, accountId) ==
  LET at == {i \in DOMAIN allocation : allocation[i].accountId = accountId}
  IN IF at = {} THEN 0 ELSE allocation[CHOOSE i \in at : TRUE].amount

\* allocation is the largest-remainder division of qty over the weights:
\* every partner has floor(T*w/W) or one more, the amounts add up to qty,
\* and the partners with one more are those of the largest (T*w) mod W,
\* the earlier of the list where two are equal.
LargestRemainder(qty, partners, allocation) ==
  LET W == SumField(partners, "weight")
      floor(i) == (qty * partners[i].weight) \div W
      rem(i) == (qty * partners[i].weight) % W
      amount(i) == AmountOf(allocation, partners[i].accountId)
  IN /\ Len(allocation) = Len(partners)
     /\ \A i \in DOMAIN partners : amount(i) \in {floor(i), floor(i) + 1}
     /\ SumField(allocation, "amount") = qty
     /\ \A i, k \in DOMAIN partners :
          amount(i) = floor(i) + 1 /\ amount(k) = floor(k)
            => rem(i) > rem(k) \/ (rem(i) = rem(k) /\ i < k)

\* The amounts of an allocation in the order of the partner list.
AmountsInOrder(partners, allocation) ==
  [i \in DOMAIN partners |-> AmountOf(allocation, partners[i].accountId)]

ExampleEven ==
  <<[accountId |-> "acctA", weight |-> 100],
    [accountId |-> "acctB", weight |-> 100]>>

\* C15 as stated: under both proportional strategies (proportional and
\* source_proportional) the amounts are the largest-remainder division of
\* qty over the weights, in determineAllocation as in
\* proportionalByWeights, and in the plugin's result over its attribution.
C15_LargestRemainderAllProportional ==
  /\ AllocateDone /\ plugin_run.partners # <<>>
       => /\ LargestRemainder(plugin_run.qty, plugin_run.partners,
                              plugin_run.byWeights[1])
          /\ plugin_run.strategy = "proportional" /\ IsNone(plugin_run.hint)
               => LargestRemainder(plugin_run.qty, plugin_run.partners,
                                   plugin_run.allocation[1])
  /\ PluginDone /\ PluginResult.type = "success"
       /\ PluginStrategy \in {"proportional", "source_proportional"}
       /\ IsNone(plugin_run.redeem.partner_hint)
       /\ PluginAttribution # <<>>
       => LargestRemainder(plugin_run.redeem.qty,
                           AttributionWeights(PluginAttribution),
                           [i \in DOMAIN PluginResult.mutation.summary.allocation |->
                              [accountId |-> PluginResult.mutation.summary.allocation[i].merchant_account,
                               amount |-> PluginResult.mutation.summary.allocation[i].amount]])

\* C15, amended: the largest-remainder division is that of
\* proportionalByWeights, which the plugin uses under source_proportional
\* only: there every partner gets floor(T*w/W) or one more, the amounts add
\* up to qty, the remainder goes to the largest (T*w) mod W with ties in
\* input order, and 20 over two equal weights is 10 and 10, 21 is 11 and 10.
C15_LargestRemainderSourceProportional ==
  /\ AllocateDone /\ plugin_run.partners # <<>>
       => /\ LargestRemainder(plugin_run.qty, plugin_run.partners,
                              plugin_run.byWeights[1])
          /\ plugin_run.partners = ExampleEven /\ plugin_run.qty = 20
               => AmountsInOrder(ExampleEven, plugin_run.byWeights[1])
                    = <<10, 10>>
          /\ plugin_run.partners = ExampleEven /\ plugin_run.qty = 21
               => AmountsInOrder(ExampleEven, plugin_run.byWeights[1])
                    = <<11, 10>>
  /\ PluginDone /\ PluginResult.type = "success"
       /\ PluginStrategy = "source_proportional"
       /\ PluginAttribution # <<>>
       => LargestRemainder(plugin_run.redeem.qty,
                           AttributionWeights(PluginAttribution),
                           [i \in DOMAIN PluginResult.mutation.summary.allocation |->
                              [accountId |-> PluginResult.mutation.summary.allocation[i].merchant_account,
                               amount |-> PluginResult.mutation.summary.allocation[i].amount]])

\* 21 points divided over two equal weights by proportionalByWeights, and
\* a source_proportional redemption of 21 points over an attribution of two
\* partners.
C15_Witness ==
  \/ /\ AllocateDone
     /\ plugin_run.partners = ExampleEven /\ plugin_run.qty = 21
     /\ AmountsInOrder(ExampleEven, plugin_run.byWeights[1]) = <<11, 10>>
  \/ /\ PluginDone /\ PluginResult.type = "success"
     /\ PluginStrategy = "source_proportional"
     /\ Len(PluginAttribution) = 2
     /\ plugin_run.redeem.qty = 21

\* The credit lines of the plugin's redeem entry: all lines after the
\* customer debit.
PluginCredits == Tail(PluginResult.mutation.entries[1].lines)

ExampleQuarter ==
  <<[accountId |-> "acctA", weight |-> 100],
    [accountId |-> "acctB", weight |-> 300]>>

\* The sum of floor(qty * amount / total) over the first n entries of an
\* attribution.
RECURSIVE FloorsBefore(_, _, _)
FloorsBefore(attribution, qty, n) ==
  IF n = 0 THEN 0
  ELSE (qty * attribution[n].amount) \div SumField(attribution, "amount")
         + FloorsBefore(attribution, qty, n - 1)

\* C16: under the proportional strategy with a non-empty attribution (and
\* no partner_hint) the credit lines follow the attribution order, every
\* partner but the last is credited floor(qty * amount / total attributed),
\* the last is credited the rest, and the summary allocation lists the same
\* accounts and amounts in the same order; 50 over weights 100 and 300 is
\* 12 and 38.
C16_ProportionalLastTakesRest ==
  /\ PluginDone /\ PluginResult.type = "success"
       /\ PluginStrategy = "proportional"
       /\ IsNone(plugin_run.redeem.partner_hint)
       /\ PluginAttribution # <<>>
       => LET attribution == PluginAttribution
              qty == plugin_run.redeem.qty
              n == Len(attribution)
              summary == PluginResult.mutation.summary.allocation
          IN /\ Len(PluginCredits) = n
             /\ Len(summary) = n
             /\ \A i \in 1..n :
                  /\ PluginCredits[i].accountId = attribution[i].accountId
                  /\ PluginCredits[i].debit = 0
                  /\ PluginCredits[i].credit =
                       IF i < n
                       THEN (qty * attribution[i].amount)
                              \div SumField(attribution, "amount")
                       ELSE qty - FloorsBefore(attribution, qty, n - 1)
                  /\ summary[i].merchant_account = PluginCredits[i].accountId
                  /\ summary[i].amount = PluginCredits[i].credit
  /\ AllocateDone /\ plugin_run.partners = ExampleQuarter
       /\ plugin_run.qty = 50 /\ plugin_run.strategy = "proportional"
       /\ IsNone(plugin_run.hint)
       => plugin_run.allocation[1] =
            <<[accountId |-> "acctA", amount |-> 12],
              [accountId |-> "acctB", amount |-> 38]>>

\* A proportional redemption of 50 points over an attribution of 100 and
\* 300 points that credits 12 and 38.
C16_Witness ==
  /\ PluginDone /\ PluginResult.type = "success"
  /\ PluginStrategy = "proportional"
  /\ IsNone(plugin_run.redeem.partner_hint)
  /\ plugin_run.redeem.qty = 50
  /\ Len(PluginAttribution) = 2
  /\ PluginAttribution[1].amount = 100 /\ PluginAttribution[2].amount = 300
  /\ PluginCredits[1].credit = 12 /\ PluginCredits[2].credit = 38

\* The unfrozen configured partners of the store, in configured order.
PluginUnfrozen ==
  UnfrozenPartners(PartnerAccounts(program_configs), merchant_status)

\* C17: under the priority strategy, or under any strategy when the request
\* carries a partner_hint, a successful redemption credits the whole qty to
\* one partner, the hinted one when it is among the unfrozen configured
\* partners and the first unfrozen configured partner otherwise; the entry
\* has the customer debit and one credit line of qty.
C17_WholeQtyToOnePartner ==
  PluginDone /\ PluginResult.type = "success"
    /\ PluginUnfrozen # <<>>
    /\ (PluginStrategy = "priority" \/ ~IsNone(plugin_run.redeem.partner_hint))
    => LET hint == plugin_run.redeem.partner_hint
           unfrozen == {PluginUnfrozen[i].accountId : i \in DOMAIN PluginUnfrozen}
           lines == PluginResult.mutation.entries[1].lines
       IN /\ Len(lines) = 2
          /\ lines[1].debit = plugin_run.redeem.qty
          /\ lines[2].credit = plugin_run.redeem.qty
          /\ lines[2].accountId =
               IF ~IsNone(hint) /\ hint[1] \in unfrozen THEN hint[1]
               ELSE PluginUnfrozen[1].accountId

\* The same partners under other account names, and the hint with them.
Renamed(partners) ==
  [i \in DOMAIN partners |->
     [partners[i] EXCEPT !.accountId = "other-" \o @]]

RenamedHint(hint) == IF IsNone(hint) THEN None ELSE Some("other-" \o hint[1])

\* The amounts of an allocation, in its order.
Amounts(allocation) == [i \in DOMAIN allocation |-> allocation[i].amount]

\* The amounts are non-negative and add up to qty.
ExactSplit(qty, allocation) ==
  /\ \A i \in DOMAIN allocation : allocation[i].amount >= 0
  /\ SumField(allocation, "amount") = qty

\* C18: for every strategy, every positive qty and every list of partners
\* with positive weights (as validation and attribution produce them), the allocation amounts are non-negative and add up to qty,
\* the credit lines of the redeem entry total its customer debit, and the
\* amounts are the same for the same weights in the same order whatever the
\* accounts are called.
C18_AllocationSumsToQty ==
  /\ AllocateDone
       => /\ ExactSplit(plugin_run.qty, plugin_run.allocation[1])
          /\ Amounts(determineAllocation(TenantId, plugin_run.qty,
                       Renamed(plugin_run.partners), plugin_run.strategy,
                       RenamedHint(plugin_run.hint)))
               = Amounts(plugin_run.allocation[1])
          /\ plugin_run.partners # <<>>
               => /\ ExactSplit(plugin_run.qty, plugin_run.byWeights[1])
                  /\ Amounts(proportionalByWeights(plugin_run.qty,
                               Renamed(plugin_run.partners)))
                       = Amounts(plugin_run.byWeights[1])
  /\ PluginDone /\ PluginResult.type = "success"
       => /\ \A i \in DOMAIN PluginCredits :
               PluginCredits[i].credit >= 0 /\ PluginCredits[i].debit = 0
          /\ PluginResult.mutation.entries[1].lines[1].debit
               = plugin_run.redeem.qty
          /\ TotalCredit(PluginCredits) = plugin_run.redeem.qty

\* 2 points divided over three partners of weights 1, 2 and 3: the floors
\* are all 0 and the two points are remainder.
C18_Witness ==
  /\ AllocateDone
  /\ plugin_run.qty = 2
  /\ Len(plugin_run.partners) = 3
  /\ \A i \in 1..3 : plugin_run.partners[i].weight = i
  /\ plugin_run.strategy = "proportional" /\ IsNone(plugin_run.hint)
  /\ Amounts(plugin_run.allocation[1]) = <<0, 0, 2>>
  /\ SumField(plugin_run.byWeights[1], "amount") = 2

\* The configured partner accounts that merchant_status holds as frozen.
FrozenPartners == ConfiguredPartners \cap merchant_status

\* C19: a successful redemption credits no frozen partner: no credit line
\* of its entry and no item of its summary allocation names a configured
\* partner account that is frozen, under every strategy, with or without a
\* partner_hint.
C19_NoCreditToFrozenPartner ==
  PluginDone /\ PluginResult.type = "success"
    => /\ \A i \in DOMAIN PluginCredits :
            PluginCredits[i].accountId \notin FrozenPartners
       /\ \A i \in DOMAIN PluginResult.mutation.summary.allocation :
            PluginResult.mutation.summary.allocation[i].merchant_account
              \notin FrozenPartners

\* A successful redemption with acctA frozen and hinted that credits acctB.
C19_Witness ==
  /\ PluginDone /\ PluginResult.type = "success"
  /\ merchant_status = {"acctA"}
  /\ plugin_run.redeem.partner_hint = Some("acctA")
  /\ \E i \in DOMAIN PluginCredits :
       PluginCredits[i].accountId = "acctB" /\ PluginCredits[i].credit > 0

(***************************************************************************)
(* A receipt job without its receipt row.                                  *)
(***************************************************************************)
\* Worker w runs the body of processReceiptJob on a job whose receipt row
\* is not in receipts.
FindsReceiptMissing(w) ==
  /\ tx[w].pc = "picked"
  /\ tx[w].table = "receipt_jobs"
  /\ tx'[w].pc # "picked"
  /\ tx[w].job[1].reference_id - 100 \notin DOMAIN receipts

PluginLines ==
  {[accountId |-> merchantAccountId(TenantId), debit |-> 1, credit |-> 0,
    unit |-> "points"],
   [accountId |-> customerAccountId(TenantId, "c1"), debit |-> 0,
    credit |-> 0, unit |-> "points"]}
  \cup
  {[accountId |-> customerAccountId(TenantId, "c1"), debit |-> 0,
    credit |-> credit, unit |-> unit] :
     credit \in 1..2, unit \in {"points", "stamps"}}

\* entry.memo as split(':') returns it.
PluginMemos == {<<"earn", "m1">>, <<"earn", "m3">>, <<"adjust", "m1">>}

\* Entries of up to two lines.
PluginEntries ==
  {[programId |-> DEFAULT_PROGRAM_ID, memo |-> memo, receiptId |-> Some(101),
    lines |-> lines] :
     memo \in PluginMemos,
     lines \in {<<>>} \cup {<<l>> : l \in PluginLines}
                 \cup {<<l, m>> : l \in PluginLines, m \in PluginLines}}

\* The entries that come first in a mutation of two entries: one without
\* lines, one balanced, one unbalanced.
FirstEntries ==
  {e \in PluginEntries :
     /\ e.memo = <<"adjust", "m1">>
     /\ \/ e.lines = <<>>
        \/ /\ Len(e.lines) = 2
           /\ e.lines[1].debit = 1
           /\ e.lines[2].unit = "points"
           /\ e.lines[2].credit \in 1..2}

PluginMutations ==
  {[entries |-> entries, summary |-> [kind |-> "earn", points_earned |-> 0]] :
     entries \in {<<e>> : e \in PluginEntries}
                   \cup {<<f, e>> : f \in FirstEntries, e \in PluginEntries}}

\* Program configs for the expiry of a lot earned at m1: the partner m1 maps
\* to with or without expiry_days, an override for m1 or none, a default
\* or none.
ExpiryConfigs ==
  {[ConfigPriority EXCEPT
      !.cross_brand_allocation.partners[1].has_expiry_days = partner.has,
      !.cross_brand_allocation.partners[1].expiry_days = partner.days,
      !.earn_expiry_overrides = overrides,
      !.earn_expiry_days_default = default] :
     partner \in {[has |-> FALSE, days |-> None], [has |-> TRUE, days |-> None],
                  [has |-> TRUE, days |-> Some(2)]},
     overrides \in {<<>>} \cup
       {<<[merchant_id |-> <<"m1">>, expiry_days |-> days]>> :
          days \in {None, Some(1)}},
     default \in {None, Some(3)}}

InitLedger ==
  /\ calls = NoCalls
  /\ notifier = NoNotifier
  /\ payments = NoPayments
  /\ \E config \in ExpiryConfigs :
       InitFrom([EmptyScenario EXCEPT !.config = config])
  /\ \E mutation \in PluginMutations, attempts \in 1..2 :
       plugin_run =
         [kind |-> "post",
          job |-> [MarkProcessing(NewJob(1, 101, 1)) EXCEPT
                     !.attempts = attempts],
          mutation |-> mutation,
          outcome |-> None]

\* processReceiptJob from applyMutations on, for the mutation of one plugin.
PostMutation ==
  /\ plugin_run.kind = "post"
  /\ IsNone(plugin_run.outcome)
  /\ plugin_run' =
       [plugin_run EXCEPT !.outcome =
          Some(ReceiptMutations(plugin_run.job, plugin_run.mutation, None,
                                program_configs, now, now, testEnv,
                                maxAttempts))]
  /\ UNCHANGED <<now, ticks, env, maxAttempts, program_configs,
                 merchant_status, merchant_redemption_rules, receipts,
                 redeem_requests, payments, calls, notifier, db_vars,
                 tx, picks>>

NextLedger == PostMutation

SpecLedger == InitLedger /\ [][NextLedger]_vars

\* The mutation has been applied.
PostDone == plugin_run.kind = "post" /\ ~IsNone(plugin_run.outcome)

PostOutcome == plugin_run.outcome[1]

\* An entry the ledger must not take: no lines, or debits that differ from
\* the credits.
EmptyEntry(entry) == entry.lines = <<>>

UnbalancedEntry(entry) ==
  entry.lines # <<>> /\ TotalDebit(entry.lines) # TotalCredit(entry.lines)

\* C21: when the mutation holds an entry that is unbalanced or has no
\* lines, the attempt ends the job failed with the validation error: the
\* job is not rescheduled and does not complete.
C21_ValidationFailureIsTerminal ==
  PostDone /\ (\E i \in DOMAIN plugin_run.mutation.entries :
                 \/ EmptyEntry(plugin_run.mutation.entries[i])
                 \/ UnbalancedEntry(plugin_run.mutation.entries[i]))
    => /\ PostOutcome.job.status = "failed"
       /\ PostOutcome.job.last_error # NULL

\* C22: validation is per unit: an entry in which some unit's debits differ
\* from that unit's credits is never written to the journal, even when its
\* debits and credits are equal in total, and the attempt that meets one
\* does not complete the job.
C22_PerUnitValidation ==
  PostDone
    => /\ \A row \in PostOutcome.journal : EntryBalancedPerUnit(row)
       /\ (\E i \in DOMAIN plugin_run.mutation.entries :
             ~EntryBalancedPerUnit(plugin_run.mutation.entries[i]))
            => PostOutcome.job.status # "completed"

(***************************************************************************)
(* A worker that is lost after it picked a job.                            *)
(***************************************************************************)
\* Worker w is lost between picking its job and committing: its transaction
\* ends without a commit.
WorkerLost(w) ==
  /\ tx[w].pc \in {"picked", "select", "update", "commit"}
  /\ tx'[w] = IdleTx
  /\ UNCHANGED db_vars

MaxLattes == 2

\* receiptPlugins
ChainOrder == <<"earn", "stamps", "tiers">>

\* parseTierConfig of loyalty_tiers: the tiers sorted by threshold.
LoyaltyTiers ==
  [windowDays |-> 30,
   tiers |-> <<[id |-> "bronze", displayName |-> "bronze",
                thresholdCents |-> 0],
               [id |-> "gold", displayName |-> "gold",
                thresholdCents |-> 200]>>]

\* A program config with a stamp card on lattes (every second stamp a
\* coupon, two stamps per latte for gold customers) and loyalty tiers,
\* either of them left out when its switch is off.
ChainConfig(stampsOn, tiersOn) ==
  [points_multiplier |-> 1,
   cross_brand_allocation |-> NoCrossBrand,
   earn_expiry_overrides |-> <<>>,
   earn_expiry_days_default |-> None,
   stamp_programs |->
     IF stampsOn
     THEN <<[id |-> "coffee", skus |-> <<"Latte">>, threshold |-> Some(2),
             stampsPerItem |-> 1, unit |-> None, couponUnit |-> None,
             tierOverrides |-> <<[tierId |-> "gold",
                                  stampsPerItem |-> Some(2),
                                  threshold |-> None]>>]>>
     ELSE <<>>,
   loyalty_tiers |-> IF tiersOn THEN Some(LoyaltyTiers) ELSE None]

\* program.tierOverrides.get(tierId)
RECURSIVE TierOverride(_, _)
TierOverride(tierOverrides, tierId) ==
  IF tierOverrides = <<>> THEN None
  ELSE LET last == tierOverrides[Len(tierOverrides)] IN
       IF last.tierId = tierId THEN Some(last)
       ELSE TierOverride(SubSeq(tierOverrides, 1, Len(tierOverrides) - 1),
                         tierId)

\* Lines 202-212 of nthFreeStampsPlugin.apply: the program with the
\* overrides of the customer's current tier.
EffectiveProgram(program, currentTier) ==
  LET override == IF IsNone(currentTier) THEN None
                  ELSE TierOverride(program.tierOverrides, currentTier[1])
  IN IF IsNone(override) THEN program
     ELSE [program EXCEPT
             !.stampsPerItem =
               IF ~IsNone(override[1].stampsPerItem)
                    /\ override[1].stampsPerItem[1] > 0
               THEN override[1].stampsPerItem[1] ELSE @,
             !.threshold =
               IF ~IsNone(override[1].threshold)
                    /\ override[1].threshold[1] > 0
               THEN override[1].threshold ELSE @]

\* nthFreeStampsPlugin.apply with the tier getCustomerTier returned.
nthFreeStampsTiered(receipt, receiptId, config, journal, currentTier) ==
  StampMutation(
    StampEntries([i \in DOMAIN config.stamp_programs |->
                    EffectiveProgram(config.stamp_programs[i], currentTier)],
                 receipt, receiptId, journal))

\* rolling-tier.ts lines 109-116: the highest tier reached without a gap.
SelectedTier(tiers, rollingSpend) ==
  LET reached == {i \in DOMAIN tiers :
                    \A k \in 1..i : rollingSpend >= tiers[k].thresholdCents}
  IN IF reached = {} THEN tiers[1]
     ELSE tiers[CHOOSE i \in reached : \A k \in reached : k <= i]

\* rolling-tier.ts lines 133-146: the mutation of rollingTierPlugin.
TierMutation(receipt, tierConfig, rollingSpend) ==
  [entries |-> <<>>,
   summary |->
     [kind |-> "tier",
      merchant_id |-> receipt.merchant_id,
      customer_account |-> customerAccountId(TenantId, receipt.account_ref),
      tier_id |-> SelectedTier(tierConfig.tiers, rollingSpend).id,
      tier_name |-> SelectedTier(tierConfig.tiers, rollingSpend).displayName,
      rolling_spend_cents |-> rollingSpend,
      window_days |-> tierConfig.windowDays]]

\* The receipt, the customer_tiers row of the receipt's customer and
\* merchant (None, or the tier_id; snapshotTier keeps what it was when the
\* chain started) and the customer's spend in the window.
ChainInputs ==
  {[kind |-> "chain",
    receipt |-> RcptWith("m1", cents, FALSE,
                         <<[sku |-> "LATTE", qty |-> lattes]>>),
    snapshotTier |-> tierRow,
    tierRow |-> tierRow,
    spend |-> spend,
    pc |-> [earn |-> "config", stamps |-> "config", tiers |-> "config"],
    currentTier |-> None,
    results |-> [earn |-> <<>>, stamps |-> <<>>, tiers |-> <<>>],
    completed |-> <<>>,
    mutations |-> None,
    applied |-> None] :
     cents \in {0, 100}, lattes \in 1..MaxLattes,
     tierRow \in {None, Some("bronze"), Some("gold")},
     spend \in {100, 250}}

InitChain ==
  /\ calls = NoCalls
  /\ notifier = NoNotifier
  /\ payments = NoPayments
  /\ \E stampsOn \in BOOLEAN, tiersOn \in BOOLEAN :
       InitFrom([EmptyScenario EXCEPT !.config = ChainConfig(stampsOn, tiersOn)])
  /\ plugin_run \in ChainInputs

\* The plugin has returned result, null (None) or a mutation.
Returned(run, plugin, result) ==
  [run EXCEPT !.pc[plugin] = "done",
              !.results[plugin] = <<result>>,
              !.completed = Append(@, plugin)]

\* defaultEarnPlugin.apply: getProgramConfig is answered.
EarnStep(run) ==
  Returned(run, "earn",
           Some(defaultEarnPlugin(run.receipt, Some(101), program_configs)))

\* nthFreeStampsPlugin.apply up to its next helper call: getProgramConfig,
\* getCustomerTier, getAccountBalance.
StampsStep(run) ==
  IF run.pc.stamps = "config"
  THEN IF program_configs.stamp_programs = <<>>
       THEN Returned(run, "stamps", None)
       ELSE [run EXCEPT !.pc.stamps = "tier"]
  ELSE IF run.pc.stamps = "tier"
  THEN [run EXCEPT !.pc.stamps = "balance", !.currentTier = run.tierRow]
  ELSE Returned(run, "stamps",
                nthFreeStampsTiered(run.receipt, Some(101), program_configs,
                                    ledger_journal, run.currentTier))

\* rollingTierPlugin.apply up to its next helper call: getProgramConfig,
\* getRollingSpendCents, upsertCustomerTier.
TiersStep(run) ==
  IF run.pc.tiers = "config"
  THEN IF IsNone(program_configs.loyalty_tiers)
            \/ run.receipt.merchant_id = <<>>
       THEN Returned(run, "tiers", None)
       ELSE [run EXCEPT !.pc.tiers = "spend"]
  ELSE IF run.pc.tiers = "spend"
  THEN [run EXCEPT !.pc.tiers = "upsert"]
  ELSE [Returned(run, "tiers",
                 Some(TierMutation(run.receipt,
                                   program_configs.loyalty_tiers[1],
                                   run.spend)))
          EXCEPT !.tierRow =
            Some(SelectedTier(program_configs.loyalty_tiers[1].tiers,
                              run.spend).id)]

\* A pending helper call of one plugin is answered and the plugin runs on.
PluginStep ==
  /\ plugin_run.kind = "chain"
  /\ \E plugin \in {"earn", "stamps", "tiers"} :
       /\ plugin_run.pc[plugin] # "done"
       /\ plugin_run' =
            (CASE plugin = "earn" -> EarnStep(plugin_run)
               [] plugin = "stamps" -> StampsStep(plugin_run)
               [] OTHER -> TiersStep(plugin_run))
  /\ UNCHANGED <<now, ticks, env, maxAttempts, program_configs,
                 merchant_status, merchant_redemption_rules, receipts,
                 redeem_requests, payments, calls, notifier, db_vars,
                 tx, picks>>

\* The mutations in the order the plugins returned.
RECURSIVE InCompletionOrder(_, _)
InCompletionOrder(results, completed) ==
  IF completed = <<>> THEN <<>>
  ELSE results[Head(completed)][1]
         \o InCompletionOrder(results, Tail(completed))

\* Promise.all(tasks).then(filter): the results by position in the chain,
\* the nulls dropped.
ReturnedMutations(results, completed) ==
  results.earn[1] \o results.stamps[1] \o results.tiers[1]

\* runPlugins resolves and applyMutations runs over what it returned.
ChainReturn ==
  /\ plugin_run.kind = "chain"
  /\ \A plugin \in {"earn", "stamps", "tiers"} :
       plugin_run.pc[plugin] = "done"
  /\ IsNone(plugin_run.mutations)
  /\ LET mutations == ReturnedMutations(plugin_run.results,
                                        plugin_run.completed)
     IN plugin_run' =
          [plugin_run EXCEPT
             !.mutations = Some(mutations),
             !.applied = Some(ApplyMutations(mutations, 1, 1, 0,
                                             program_configs, now, now,
                                             testEnv))]
  /\ UNCHANGED <<now, ticks, env, maxAttempts, program_configs,
                 merchant_status, merchant_redemption_rules, receipts,
                 redeem_requests, payments, calls, notifier, db_vars,
                 tx, picks>>

NextChain == PluginStep \/ ChainReturn

SpecChain == InitChain /\ [][NextChain]_vars

\* runPlugins has resolved.
ChainDone == plugin_run.kind = "chain" /\ ~IsNone(plugin_run.mutations)

\* The mutations of the chain on the snapshot: what each plugin returns
\* from the config, the receipt and the rows as they were when the chain
\* started.
SnapshotMutations ==
  <<defaultEarnPlugin(plugin_run.receipt, Some(101), program_configs)>>
  \o nthFreeStampsTiered(plugin_run.receipt, Some(101), program_configs,
                         ledger_journal, plugin_run.snapshotTier)
  \o (IF IsNone(program_configs.loyalty_tiers) THEN <<>>
      ELSE <<TierMutation(plugin_run.receipt,
                          program_configs.loyalty_tiers[1],
                          plugin_run.spend)>>)

ChainPlace(mutation) ==
  CASE mutation.summary.kind = "earn" -> 1
    [] mutation.summary.kind = "stamps" -> 2
    [] OTHER -> 3

\* The entries of the plugins' results, in chain order.
ChainEntries ==
  LET entriesOf(result) == IF result[1] = <<>> THEN <<>>
                           ELSE result[1][1].entries
  IN entriesOf(plugin_run.results.earn)
       \o entriesOf(plugin_run.results.stamps)
       \o entriesOf(plugin_run.results.tiers)

\* C25: whatever order the plugins complete in, runPlugins returns their
\* non-null results in chain order, and the processor posts their entries
\* in that order: the k-th entry of the chain gets the k-th id drawn.
C25_MutationsInChainOrder ==
  ChainDone =>
    LET mutations == plugin_run.mutations[1]
        rows == plugin_run.applied[1].rows
    IN /\ \A i, k \in DOMAIN mutations :
            i < k => ChainPlace(mutations[i]) < ChainPlace(mutations[k])
       /\ {mutations[i] : i \in DOMAIN mutations}
            = {plugin_run.results[p][1][1] :
                 p \in {q \in {"earn", "stamps", "tiers"} :
                          plugin_run.results[q][1] # <<>>}}
       /\ Cardinality(rows) = Len(ChainEntries)
       /\ \A row \in rows :
            /\ (row.entry_id % 100) + 1 \in DOMAIN ChainEntries
            /\ row.memo = ChainEntries[(row.entry_id % 100) + 1].memo
            /\ row.lines = ChainEntries[(row.entry_id % 100) + 1].lines

\* The plugins completed in the reverse of the chain order, all three with
\* a mutation, and the earn entry was posted first.
C25_Witness ==
  /\ ChainDone
  /\ plugin_run.completed = <<"tiers", "stamps", "earn">>
  /\ Len(plugin_run.mutations[1]) = 3
  /\ plugin_run.mutations[1][1].summary.kind = "earn"
  /\ Cardinality(plugin_run.applied[1].rows) >= 2
  /\ \E row \in plugin_run.applied[1].rows :
       row.entry_id % 100 = 0 /\ row.memo[1] = "earn"

(***************************************************************************)
(* Redemption at a burn merchant.                                          *)
(***************************************************************************)
\* The request of w's job names a burn merchant for which
\* merchant_redemption_rules holds no enabled rule.
BurnWithoutRule(w) ==
  /\ ~IsNone(RequestOf(w).burn_merchant_id)
  /\ \A i \in DOMAIN merchant_redemption_rules :
       ~ /\ merchant_redemption_rules[i].burn_merchant_id
              = RequestOf(w).burn_merchant_id[1]
         /\ merchant_redemption_rules[i].enabled

\* C26: a redeem request with a burn_merchant_id that has no enabled rule
\* ends failed with last_error "Insufficient balance" and posts no journal
\* entry, whatever lots the customer holds and whatever partners are
\* configured.
C26_BurnWithoutRuleFails ==
  [][\A w \in Workers :
       (RunsPlugin(w) /\ BurnWithoutRule(w)) =>
         /\ tx'[w].pc = "commit"
         /\ tx'[w].job[1].status = "failed"
         /\ tx'[w].job[1].last_error = "Insufficient balance"
         /\ tx'[w].journal = {}
         /\ tx'[w].lotUpd = EmptyFn]_vars

\* A redeem of one point at burn merchant m9, for which the only rule is
\* disabled, has failed for want of balance while the customer holds lots
\* and partners are configured.
C26_Witness ==
  \E j \in DOMAIN redeem_jobs :
    /\ redeem_jobs[j].status = "failed"
    /\ redeem_jobs[j].last_error = "Insufficient balance"
    /\ redeem_requests[redeem_jobs[j].reference_id - 100].burn_merchant_id
         = Some("m9")
    /\ redeem_requests[redeem_jobs[j].reference_id - 100].qty = 1
    /\ Len(merchant_redemption_rules) = 2
    /\ ConfiguredPartners # {}
    /\ \E l \in DOMAIN point_lots : point_lots[l].qty_remaining > 0

(***************************************************************************)
(* The notifier: processNextNotification drains job_notifications to the   *)
(* webhook.  Each dispatcher runs it in a transaction of its own: the      *)
(* select, the HTTP POST, the UPDATE of the row and the COMMIT.            *)
(***************************************************************************)
\* The webhook refuses a request at most this often.
MaxDeliveryFailures == 1

\* The clock advances this many poll intervals while no row waits.
MaxIdlePolls == 1

\* The transactions of the notifier that end in a ROLLBACK.
MaxRollbacks == 1

\* CONFIG.pollIntervalMs
pollIntervalMs == 1000

\* Two dispatchers poll the outbox.
Dispatchers == {1, 2}

IdleDispatcher == [pc |-> "idle"]

\* The answers of a webhook that is down: a non-2xx with a long body, and a
\* request that throws.
FailedAnswers ==
  {[kind |-> "response", ok |-> FALSE, status |-> 404, text |-> Pad1024],
   [kind |-> "threw", message |-> "fetch failed"]}

OkAnswers ==
  {[kind |-> "response", ok |-> TRUE, status |-> 200, text |-> "ok"]}

\* deliverNotification returned without a request: no webhook url.
SkippedDelivery == [kind |-> "skipped"]

\* The job_notifications rows the processor queued: a completed and a failed
\* job, created one after the other and due at once.
OutboxRow(i) ==
  [notification_id |-> i,
   status |-> IF i % 2 = 1 THEN "completed" ELSE "failed",
   error |-> IF i % 2 = 1 THEN None ELSE Some("Insufficient balance"),
   created_at |-> i,
   available_at |-> i,
   delivered_at |-> None,
   delivery_attempts |-> 0]

InitNotifier ==
  /\ \E sc \in {EmptyScenario} : InitFrom(sc)
  /\ calls = NoCalls
  /\ plugin_run = NoRun
  /\ payments = NoPayments
  /\ \E test \in BOOLEAN, url \in BOOLEAN, up \in BOOLEAN :
       notifier = [kind |-> "outbox",
                   now |-> pollIntervalMs,
                   test |-> test,
                   webhookUrl |-> url,
                   up |-> up,
                   rows |-> <<OutboxRow(1), OutboxRow(2)>>,
                   tx |-> [d \in Dispatchers |-> IdleDispatcher],
                   acked |-> {},
                   posted |-> <<None, None>>,
                   failures |-> 0,
                   rollbacks |-> 0]

\* The rows another dispatcher holds FOR UPDATE.
LockedByOthers(run, d) ==
  {run.tx[e].row : e \in {e \in Dispatchers : e # d /\ run.tx[e].pc # "idle"}}

\* createNotificationSelectSql: the undelivered due rows, and outside the
\* test environment those no other transaction has locked.
SelectableRows(run, d) ==
  {i \in DOMAIN run.rows :
     /\ IsNone(run.rows[i].delivered_at)
     /\ run.rows[i].available_at <= run.now
     /\ run.test \/ i \notin LockedByOthers(run, d)}

\* ORDER BY created_at LIMIT 1
OldestRows(run, d) ==
  {i \in SelectableRows(run, d) :
     \A k \in SelectableRows(run, d) :
        run.rows[i].created_at <= run.rows[k].created_at}

\* processNextNotification: BEGIN and the select.  NOW() of the transaction
\* is the time of its BEGIN.
SelectNotification(d) ==
  /\ notifier.kind = "outbox"
  /\ notifier.tx[d].pc = "idle"
  /\ \E i \in OldestRows(notifier, d) :
       notifier' = [notifier EXCEPT
                      !.tx[d] = [pc |-> "selected", row |-> i,
                                 begin |-> notifier.now]]
  /\ UNCHANGED <<now, ticks, env, maxAttempts, program_configs,
                 merchant_status, merchant_redemption_rules, receipts,
                 redeem_requests, payments, calls, plugin_run, db_vars, tx, picks>>

\* The answers deliverNotification can get for a row.
Answers(run, i) ==
  IF ~run.webhookUrl THEN {SkippedDelivery}
  ELSE IF run.up THEN OkAnswers
  ELSE IF run.failures < MaxDeliveryFailures THEN FailedAnswers
  ELSE {}

\* deliverNotification throws on an answer that is not ok.
DeliveryThrows(answer) ==
  \/ answer.kind = "threw"
  \/ answer.kind = "response" /\ ~answer.ok

DeliveryMessage(answer) ==
  IF answer.kind = "threw" THEN answer.message
  ELSE "Webhook delivery failed with status " \o ToString(answer.status)
         \o ": " \o answer.text

\* A reschedule with the delay of one poll interval.
rescheduleNotificationSoon(row, nowJs, message) ==
  [row EXCEPT !.available_at = nowJs + pollIntervalMs,
              !.delivery_attempts = @ + 1,
              !.error = Some(truncateError(message))]

markAsDelivered(row, nowSql) ==
  [row EXCEPT !.delivered_at = Some(nowSql),
              !.delivery_attempts = @ + 1]

rescheduleNotification(row, nowJs, message) ==
  [row EXCEPT !.available_at = nowJs + pollIntervalMs * 5,
              !.delivery_attempts = @ + 1,
              !.error = Some(truncateError(message))]

\* The rows a 2xx answered, with the answer to row i added.
Acked(run, i, answer) ==
  IF answer \in OkAnswers THEN run.acked \cup {i} ELSE run.acked

\* deliverNotification lines 55-63: what the body of the POST says of the
\* job, read from the row.
NotificationPayload(row) == [status |-> row.status, error |-> row.error]

\* The body of the latest POST of each row, with that of the request the
\* answer came to.
Posted(run, i, answer) ==
  IF answer = SkippedDelivery THEN run.posted
  ELSE [run.posted EXCEPT ![i] = Some(NotificationPayload(run.rows[i]))]

\* The refusals of the webhook, with the answer added.
Failures(run, answer) ==
  IF answer \in FailedAnswers THEN run.failures + 1 ELSE run.failures

\* processNextNotification after the select: deliverNotification, that is
\* the POST and its answer, then the UPDATE of the row as committed, and
\* the COMMIT.
DeliverNotification(d) ==
  /\ notifier.kind = "outbox"
  /\ notifier.tx[d].pc = "selected"
  /\ LET i == notifier.tx[d].row
     IN \E answer \in Answers(notifier, i) :
          notifier' = [notifier EXCEPT
            !.rows[i] = IF DeliveryThrows(answer)
                        THEN rescheduleNotification(@, notifier.now,
                                                    DeliveryMessage(answer))
                        ELSE markAsDelivered(@, notifier.tx[d].begin),
            !.acked = Acked(notifier, i, answer),
            !.posted = Posted(notifier, i, answer),
            !.failures = Failures(notifier, answer),
            !.tx[d] = IdleDispatcher]
  /\ UNCHANGED <<now, ticks, env, maxAttempts, program_configs,
                 merchant_status, merchant_redemption_rules, receipts,
                 redeem_requests, payments, calls, plugin_run, db_vars, tx, picks>>

\* withTransaction: a statement of the store fails or the dispatcher is
\* lost, before the POST or after its answer, and the transaction is
\* rolled back.
RollbackNotification(d) ==
  /\ notifier.kind = "outbox"
  /\ notifier.tx[d].pc = "selected"
  /\ notifier.rollbacks < MaxRollbacks
  /\ LET i == notifier.tx[d].row
     IN \E answer \in Answers(notifier, i) \cup {SkippedDelivery} :
          notifier' = [notifier EXCEPT
            !.acked = Acked(notifier, i, answer),
            !.posted = Posted(notifier, i, answer),
            !.failures = Failures(notifier, answer),
            !.tx[d] = IdleDispatcher,
            !.rollbacks = @ + 1]
  /\ UNCHANGED <<now, ticks, env, maxAttempts, program_configs,
                 merchant_status, merchant_redemption_rules, receipts,
                 redeem_requests, payments, calls, plugin_run, db_vars, tx, picks>>

\* The webhook goes down or comes up.
WebhookChanges ==
  /\ notifier.kind = "outbox"
  /\ notifier.webhookUrl
  /\ notifier' = [notifier EXCEPT !.up = ~@]
  /\ UNCHANGED <<now, ticks, env, maxAttempts, program_configs,
                 merchant_status, merchant_redemption_rules, receipts,
                 redeem_requests, payments, calls, plugin_run, db_vars, tx, picks>>

\* An undelivered row waits for its available_at.
RowWaits(run) ==
  \E i \in DOMAIN run.rows :
     IsNone(run.rows[i].delivered_at) /\ run.rows[i].available_at > run.now

\* Five poll intervals pass.
NotifierTick ==
  /\ notifier.kind = "outbox"
  /\ \/ notifier.now < pollIntervalMs * (1 + 5 * MaxIdlePolls)
     \/ RowWaits(notifier)
  /\ notifier' = [notifier EXCEPT !.now = @ + pollIntervalMs * 5]
  /\ UNCHANGED <<now, ticks, env, maxAttempts, program_configs,
                 merchant_status, merchant_redemption_rules, receipts,
                 redeem_requests, payments, calls, plugin_run, db_vars, tx, picks>>

NextNotifier ==
  \/ \E d \in Dispatchers : SelectNotification(d)
  \/ \E d \in Dispatchers : DeliverNotification(d)
  \/ \E d \in Dispatchers : RollbackNotification(d)
  \/ WebhookChanges
  \/ NotifierTick

\* The dispatcher keeps running: every step of processNextNotification that
\* can be taken is taken, and the clock advances.
NotifierFairness ==
  /\ \A d \in Dispatchers :
       /\ WF_vars(SelectNotification(d))
       /\ WF_vars(DeliverNotification(d))
  /\ WF_vars(NotifierTick)

SpecNotifier == InitNotifier /\ [][NextNotifier]_vars /\ NotifierFairness

OutboxRuns == notifier.kind = "outbox"

\* C27: delivered_at of a notification is set only after a POST of that
\* notification to the webhook was answered 2xx; once set it is never
\* cleared or changed, and no dispatcher selects the notification again.
C27_DeliveredOnlyAfter2xx ==
  [][OutboxRuns =>
       \A i \in DOMAIN notifier.rows :
          /\ ~IsNone(notifier.rows[i].delivered_at)' => i \in notifier.acked'
          /\ ~IsNone(notifier.rows[i].delivered_at) =>
               /\ notifier.rows[i].delivered_at' = notifier.rows[i].delivered_at
               /\ \A d \in Dispatchers :
                    SelectNotification(d) => notifier.tx[d].row' # i]_vars

\* The part of C27 the dispatcher keeps: a delivered notification is never
\* selected again and its delivered_at is never cleared.
NeverSelectedAgain ==
  [][OutboxRuns =>
       \A i \in DOMAIN notifier.rows :
          ~IsNone(notifier.rows[i].delivered_at) =>
             /\ ~IsNone(notifier.rows[i].delivered_at)'
             /\ \A d \in Dispatchers :
                  SelectNotification(d) => notifier.tx[d].row' # i]_vars

\* With a webhook url and row locks, delivered_at is set once, after a 2xx.
DeliveredOnceLocked ==
  [][(OutboxRuns /\ notifier.webhookUrl /\ ~notifier.test) =>
       \A i \in DOMAIN notifier.rows :
          /\ ~IsNone(notifier.rows[i].delivered_at)' => i \in notifier.acked'
          /\ ~IsNone(notifier.rows[i].delivered_at) =>
               notifier.rows[i].delivered_at' = notifier.rows[i].delivered_at]_vars

\* delivered_at is set without a POST.
DeliveredUnacked ==
  OutboxRuns /\ \E i \in DOMAIN notifier.rows :
     ~IsNone(notifier.rows[i].delivered_at) /\ i \notin notifier.acked

\* delivered_at is set to the BEGIN of a later transaction than the row
\* was selected by first.
DeliveredTwice ==
  OutboxRuns /\ \E i \in DOMAIN notifier.rows :
     notifier.rows[i].delivery_attempts = 2
       /\ ~IsNone(notifier.rows[i].delivered_at)
       /\ i \in notifier.acked
       /\ notifier.rows[i].available_at = i

\* Every notification is marked delivered, and was answered 2xx when a
\* webhook url is configured.
AllDelivered ==
  OutboxRuns /\ \A i \in DOMAIN notifier.rows :
     /\ ~IsNone(notifier.rows[i].delivered_at)
     /\ notifier.webhookUrl => i \in notifier.acked

\* Dispatcher d ends a delivery that failed.
FailureSettled(d) ==
  DeliverNotification(d) /\ notifier'.failures > notifier.failures

\* C28: a delivery that throws or is answered non-2xx leaves delivered_at
\* as it was (NULL under row locks), moves available_at to now plus five
\* poll intervals and stores the message cut to 1024 characters, whatever
\* the number of attempts made; and with dispatchers that keep running,
\* once the webhook answers 2xx for good every notification is delivered.
C28_AtLeastOnce ==
  /\ [][\A d \in Dispatchers : FailureSettled(d) =>
          LET i == notifier.tx[d].row
          IN /\ notifier'.rows[i].delivered_at = notifier.rows[i].delivered_at
             /\ ~notifier.test => IsNone(notifier'.rows[i].delivered_at)
             /\ notifier'.rows[i].available_at
                  = notifier.now + 5 * pollIntervalMs
             /\ notifier'.rows[i].delivery_attempts
                  = notifier.rows[i].delivery_attempts + 1
             /\ \E answer \in FailedAnswers :
                  LET message == DeliveryMessage(answer)
                      stored == notifier'.rows[i].error[1]
                  IN /\ Len(stored) <= ErrorLimit
                     /\ stored = IF Len(message) <= ErrorLimit THEN message
                                 ELSE SubSeq(message, 1, ErrorLimit)]_vars
  /\ <>[](OutboxRuns /\ notifier.up) => <>AllDelivered

\* A notification whose first delivery was answered 404 with a long body,
\* stored cut to 1024 characters, was delivered on the retry.
C28_Witness ==
  OutboxRuns /\ \E i \in DOMAIN notifier.rows :
     /\ ~IsNone(notifier.rows[i].delivered_at)
     /\ i \in notifier.acked
     /\ notifier.rows[i].delivery_attempts = 2
     /\ notifier.rows[i].available_at > i
     /\ Len(notifier.rows[i].error[1]) = ErrorLimit

(***************************************************************************)
(* The lots of an earn entry.                                              *)
(***************************************************************************)
\* The points credit lines of the earn entries of the mutation applied, as
\* <<entry index, line index>>.
EarnCreditLines ==
  {<<i, n>> \in (DOMAIN plugin_run.mutation.entries) \X (1..2) :
     /\ IsEarnMemo(plugin_run.mutation.entries[i].memo)
     /\ n \in DOMAIN plugin_run.mutation.entries[i].lines
     /\ plugin_run.mutation.entries[i].lines[n].unit = "points"
     /\ plugin_run.mutation.entries[i].lines[n].credit > 0}

\* The expiry days by first match: the expiry_days of the partner the
\* merchant maps to, then the override of the merchant, then the default.
FirstMatchExpiryDays(config, merchantId) ==
  LET cross == config.cross_brand_allocation
      accounts == {cross.partner_map[k].merchant_account :
                     k \in {k \in DOMAIN cross.partner_map :
                              cross.partner_map[k].merchant_id = merchantId}}
      partners == {k \in DOMAIN cross.partners :
                     /\ cross.partners[k].merchant_account \in accounts
                     /\ cross.partners[k].has_expiry_days}
      overrides == {k \in DOMAIN config.earn_expiry_overrides :
                      config.earn_expiry_overrides[k].merchant_id = merchantId}
  IN IF partners # {}
     THEN cross.partners[CHOOSE k \in partners :
                           \A m \in partners : k <= m].expiry_days
     ELSE IF overrides # {}
     THEN config.earn_expiry_overrides[CHOOSE k \in overrides :
                           \A m \in overrides : k <= m].expiry_days
     ELSE config.earn_expiry_days_default

\* lot is the lot of line n of entry i: tied to the journal row of that
\* entry, holding the credited amount, with the expiry of the first match.
LotOfLine(lot, i, n) ==
  LET entry == plugin_run.mutation.entries[i]
      line == entry.lines[n]
      days == FirstMatchExpiryDays(program_configs, MemoMerchantId(entry.memo))
  IN /\ \E row \in PostOutcome.journal :
          /\ row.memo = entry.memo
          /\ row.lines = entry.lines
          /\ lot.earn_entry_id = Some(row.entry_id)
     /\ lot.customer_account = line.accountId
     /\ lot.unit = "points"
     /\ lot.qty_total = line.credit
     /\ lot.qty_remaining = line.credit
     /\ lot.expires_at = IF IsNone(days) THEN None
                         ELSE Some(now + (days[1] * DayMs))

EarnLotsAsClaimed ==
  /\ Cardinality(PostOutcome.lots) = Cardinality(EarnCreditLines)
  /\ \A p \in EarnCreditLines :
        \E lot \in PostOutcome.lots : LotOfLine(lot, p[1], p[2])
  /\ \A lot \in PostOutcome.lots :
        \E p \in EarnCreditLines : LotOfLine(lot, p[1], p[2])

\* C29: applying an earn entry creates exactly one lot per points credit
\* line, tied to the entry's id, with qty_total = qty_remaining = the
\* credit and the expiry of the first match among the partner's
\* expiry_days, the merchant's override and the default (none: the lot
\* never expires); other memos and other units create no lot.
C29_EarnLots ==
  (PostDone /\ PostOutcome.job.status = "completed") => EarnLotsAsClaimed

\* What the code keeps: the lots are as claimed when every entry of the
\* mutation has lines.
EarnLotsWithoutEmptyEntry ==
  (/\ PostDone
   /\ PostOutcome.job.status = "completed"
   /\ \A i \in DOMAIN plugin_run.mutation.entries :
         ~EmptyEntry(plugin_run.mutation.entries[i]))
    => EarnLotsAsClaimed

\* An earn entry that follows an entry without lines got a lot with a
\* partner's expiry, tied to no entry.
LotWithoutEntry ==
  /\ PostDone
  /\ PostOutcome.job.status = "completed"
  /\ \E lot \in PostOutcome.lots :
        IsNone(lot.earn_entry_id) /\ ~IsNone(lot.expires_at)

(***************************************************************************)
(* The ledger lines written.                                               *)
(***************************************************************************)
\* debit >= 0, credit >= 0 and exactly one of the two is not zero.
OneSidedLine(line) ==
  /\ line.debit >= 0
  /\ line.credit >= 0
  /\ (line.debit = 0) # (line.credit = 0)

\* C30: every ledger line written has debit >= 0, credit >= 0 and exactly
\* one of the two non-zero: the lines of the committed journal, and the
\* lines of the entry a successful redemption hands to postLedgerEntries,
\* which holds no credit line of amount 0.
C30_OneSidedLines ==
  /\ \A row \in ledger_journal :
        \A n \in DOMAIN row.lines : OneSidedLine(row.lines[n])
  /\ (PluginDone /\ PluginResult.type = "success") =>
        \A i \in DOMAIN PluginResult.mutation.entries :
           \A n \in DOMAIN PluginResult.mutation.entries[i].lines :
              OneSidedLine(PluginResult.mutation.entries[i].lines[n])

(***************************************************************************)
(* A redeem job of tenant t1 on a store that also holds rows of tenant t2. *)
(***************************************************************************)
OtherTenant == "t2"

\* The query of getFrozenMerchants without its tenant condition.
getFrozenMerchantsAnyTenant(rows) ==
  {r.merchant_account : r \in {r \in rows : r.frozen}}

\* getFrozenMerchants: merchant_status WHERE tenant_id = $1 AND frozen.
getFrozenMerchants(rows) ==
  {r.merchant_account : r \in {r \in rows : r.tenant_id = TenantId /\ r.frozen}}

\* getProgramConfig: program_configs WHERE tenant_id = $1 AND program_id = $2;
\* rows[0], and the tenant's row is there.
getProgramConfigRow(rows, tenantId, programId) ==
  LET hits == {i \in DOMAIN rows : /\ rows[i].tenant_id = tenantId
                                   /\ rows[i].program_id = programId}
  IN rows[CHOOSE i \in hits : \A k \in hits : i <= k].config

\* consumeLots, lines 512-524, with no other writer: the loop over the
\* selected rows.  lots is the table, remaining what is left to consume.
RECURSIVE ConsumeRows(_, _, _)
ConsumeRows(lots, rows, remaining) ==
  IF rows = <<>> \/ remaining <= 0
  THEN [lots |-> lots, remaining |-> remaining]
  ELSE LET row == Head(rows)
           consume == Min(row.qty_remaining, remaining)
           updated == UpdateLotRow(lots[row.lot_id].qty_remaining, consume)
       IN ConsumeRows(
            IF IsNone(updated) THEN lots
            ELSE [lots EXCEPT ![row.lot_id].qty_remaining = updated[1]],
            Tail(rows), remaining - consume)

\* consumeLots for one item: the table after it and whether it threw.
consumeLots(lots, item, nowSql, nowJs, inTest) ==
  IF item.args.amount <= 0 THEN [lots |-> lots, threw |-> FALSE]
  ELSE LET rows == ConsumeSelect(lots, item.args, item.merchantIds,
                                 item.options, nowSql, nowJs, inTest)
           done == ConsumeRows(lots, rows, item.args.amount)
       IN [lots |-> done.lots, threw |-> done.remaining > 0]

\* consumePointLotsForRedemption: the calls of consumeLots in order, up to
\* the first that throws.
RECURSIVE consumePointLotsForRedemption(_, _, _, _, _)
consumePointLotsForRedemption(lots, items, nowSql, nowJs, inTest) ==
  IF items = <<>> THEN [lots |-> lots, threw |-> FALSE]
  ELSE LET one == consumeLots(lots, Head(items), nowSql, nowJs, inTest)
       IN IF one.threw THEN one
          ELSE consumePointLotsForRedemption(one.lots, Tail(items), nowSql,
                                             nowJs, inTest)

\* processRedeemJob with no other writer, on the tables given: the result
\* of the plugin, and for a success the lots after consumption and whether
\* consumption threw.
ProcessRedeem(redeem, lots, configRows, statusRows, rules, nowSql, inTest) ==
  LET config == getProgramConfigRow(configRows, TenantId, DEFAULT_PROGRAM_ID)
      frozen == getFrozenMerchants(statusRows)
      result == runRedeemPlugins(redeem, lots, config, frozen, rules, nowSql,
                                 nowSql, inTest)
      accepted == ~IsNone(result) /\ result[1].type = "success"
      consumed ==
        IF accepted
        THEN consumePointLotsForRedemption(lots,
               ConsumptionItems(result[1].mutation, config, rules),
               nowSql, nowSql, inTest)
        ELSE [lots |-> lots, threw |-> FALSE]
  IN [result |-> result, lots |-> consumed.lots, threw |-> consumed.threw]

\* The tables of tenant t1 as the store holds them.
OwnStatusRows ==
  {[tenant_id |-> TenantId, merchant_account |-> a, frozen |-> TRUE] :
     a \in merchant_status}

OwnConfigRows ==
  <<[tenant_id |-> TenantId, program_id |-> DEFAULT_PROGRAM_ID,
     config |-> program_configs]>>

\* Rows of tenant t2 with the identifiers of t1's rows: a copy of every
\* lot twice as large, an enabled rule for burn merchant m9, partner acctA
\* frozen, and a config with another strategy and a lookback of a day.
ForeignLots ==
  [l \in {k + 1 : k \in DOMAIN point_lots} |->
     [point_lots[l - 1] EXCEPT !.tenant_id = OtherTenant, !.lot_id = l,
                               !.qty_total = 2 * @, !.qty_remaining = 2 * @]]

ForeignRules == <<[Rule("m9", TRUE) EXCEPT !.tenant_id = OtherTenant]>>

ForeignStatusRows ==
  {[tenant_id |-> OtherTenant, merchant_account |-> a, frozen |-> TRUE] :
     a \in {"acctA", "t1::merchant_liability"}}

ForeignConfigRows ==
  <<[tenant_id |-> OtherTenant, program_id |-> DEFAULT_PROGRAM_ID,
     config |-> [program_configs EXCEPT
                   !.cross_brand_allocation.strategy =
                     IF @ = "priority" THEN "proportional" ELSE "priority"]]>>

\* Which tables hold rows of tenant t2.
ForeignChoices ==
  {[lots |-> l, rules |-> r, status |-> s, configs |-> c] :
     l \in BOOLEAN, r \in BOOLEAN, s \in BOOLEAN, c \in BOOLEAN}

InitTenant ==
  /\ calls = NoCalls
  /\ notifier = NoNotifier
  /\ payments = NoPayments
  /\ \E sc \in PluginScenarios, rules \in RuleSets :
       InitFrom([sc EXCEPT !.rules = rules])
  /\ \E qty \in 1..MaxQty, burn \in {None, Some("m1"), Some("m9")},
        foreign \in ForeignChoices :
       plugin_run = [kind |-> "tenant",
                     redeem |-> [PluginRequest(qty, None) EXCEPT
                                   !.burn_merchant_id = burn],
                     foreign |-> foreign,
                     alone |-> None,
                     shared |-> None]

\* The store with the rows of tenant t2 that foreign names.
SharedLots(foreign) ==
  IF foreign.lots THEN point_lots @@ ForeignLots ELSE point_lots

SharedRules(foreign) ==
  IF foreign.rules THEN ForeignRules \o merchant_redemption_rules
  ELSE merchant_redemption_rules

SharedStatusRows(foreign) ==
  IF foreign.status THEN OwnStatusRows \cup ForeignStatusRows
  ELSE OwnStatusRows

SharedConfigRows(foreign) ==
  IF foreign.configs THEN ForeignConfigRows \o OwnConfigRows
  ELSE OwnConfigRows

\* The redeem job is processed on the store of tenant t1 alone, and on the
\* store that holds the rows of tenant t2 as well.
ProcessBoth ==
  /\ plugin_run.kind = "tenant"
  /\ IsNone(plugin_run.shared)
  /\ plugin_run' =
       [plugin_run EXCEPT
          !.alone = Some(ProcessRedeem(plugin_run.redeem, point_lots,
                           OwnConfigRows, OwnStatusRows,
                           merchant_redemption_rules, now, testEnv)),
          !.shared = Some(ProcessRedeem(plugin_run.redeem,
                            SharedLots(plugin_run.foreign),
                            SharedConfigRows(plugin_run.foreign),
                            SharedStatusRows(plugin_run.foreign),
                            SharedRules(plugin_run.foreign), now, testEnv))]
  /\ UNCHANGED <<now, ticks, env, maxAttempts, program_configs,
                 merchant_status, merchant_redemption_rules, receipts,
                 redeem_requests, payments, calls, notifier, db_vars, tx, picks>>

NextTenant == ProcessBoth

SpecTenant == InitTenant /\ [][NextTenant]_vars

TenantDone == plugin_run.kind = "tenant" /\ ~IsNone(plugin_run.shared)

MaxTiers == 3

\* The threshold_cents a tier of loyalty_tiers may be written with, and the
\* sums of grand_total_cents getRollingSpendCents may answer.
ThresholdChoices == {0 - 100, 0, 2000, 15000}

SpendChoices == {0, 2000, 14999, 15000, 18000}

TierName(k) ==
  IF k = 1 THEN "base"
  ELSE IF k = 2 THEN "silver"
  ELSE IF k = 3 THEN "gold" ELSE "tier" \o ToString(k)

\* rolling-tier.ts line 74: Array.prototype.sort is stable, a tier goes
\* behind the tiers of the same threshold.
RECURSIVE SortTiers(_)
SortTiers(tiers) ==
  IF tiers = <<>> THEN <<>>
  ELSE LET sorted == SortTiers(SubSeq(tiers, 1, Len(tiers) - 1))
           tier == tiers[Len(tiers)]
           before == SelectSeq(sorted,
                       LAMBDA t : t.thresholdCents <= tier.thresholdCents)
           after == SelectSeq(sorted,
                      LAMBDA t : t.thresholdCents > tier.thresholdCents)
       IN before \o <<tier>> \o after

\* parseTierConfig: a negative threshold counts as 0, the tiers are sorted
\* by threshold.
parseTierConfig(raw) ==
  [windowDays |-> raw.window_days,
   tiers |-> SortTiers([k \in DOMAIN raw.tiers |->
               [id |-> raw.tiers[k].id,
                displayName |-> raw.tiers[k].id,
                thresholdCents |->
                  IF raw.tiers[k].threshold_cents < 0 THEN 0
                  ELSE raw.tiers[k].threshold_cents]])]

\* The loyalty_tiers of the program config, the rolling spend of the
\* customer and the customer_tiers row before the receipt.
InitTier ==
  /\ calls = NoCalls
  /\ notifier = NoNotifier
  /\ payments = NoPayments
  /\ InitFrom(EmptyScenario)
  /\ \E n \in 1..MaxTiers, spend \in SpendChoices :
       \E thresholds \in [1..n -> ThresholdChoices] :
         plugin_run =
           [kind |-> "tier",
            receipt |-> RcptWith("m1", 100, FALSE, <<>>),
            raw |-> [window_days |-> 30,
                     tiers |-> [k \in 1..n |->
                                  [id |-> TierName(k),
                                   threshold_cents |-> thresholds[k]]]],
            spend |-> spend,
            tierRow |-> None,
            result |-> None]

\* rollingTierPlugin.apply: the config is parsed, the spend is read, the
\* tier is selected, upserted and reported.
ApplyRollingTier ==
  /\ plugin_run.kind = "tier"
  /\ IsNone(plugin_run.result)
  /\ LET tierConfig == parseTierConfig(plugin_run.raw)
     IN plugin_run' =
          [plugin_run EXCEPT
             !.tierRow = Some(SelectedTier(tierConfig.tiers,
                                           plugin_run.spend).id),
             !.result = Some(TierMutation(plugin_run.receipt, tierConfig,
                                          plugin_run.spend))]
  /\ UNCHANGED <<now, ticks, env, maxAttempts, program_configs,
                 merchant_status, merchant_redemption_rules, receipts,
                 redeem_requests, payments, calls, notifier, db_vars, tx, picks>>

NextTier == ApplyRollingTier

SpecTier == InitTier /\ [][NextTier]_vars

TierDone == plugin_run.kind = "tier" /\ ~IsNone(plugin_run.result)

\* The threshold the tier upserted was parsed with.
UpsertedThresholds ==
  {t.thresholdCents : t \in
     {parseTierConfig(plugin_run.raw).tiers[k] :
        k \in {k \in DOMAIN plugin_run.raw.tiers :
                 parseTierConfig(plugin_run.raw).tiers[k].id
                   = plugin_run.tierRow[1]}}}

ReachedThresholds ==
  {parseTierConfig(plugin_run.raw).tiers[k].thresholdCents :
     k \in {k \in DOMAIN plugin_run.raw.tiers :
              parseTierConfig(plugin_run.raw).tiers[k].thresholdCents
                <= plugin_run.spend}}

\* C32: the rolling spend tier plugin upserts and reports the highest tier
\* whose threshold_cents is at most the customer's rolling spend, so the
\* threshold of the selected tier never exceeds the rolling spend.
C32_TierWithinSpend ==
  TierDone =>
    /\ plugin_run.result[1].summary.tier_id = plugin_run.tierRow[1]
    /\ \A t \in UpsertedThresholds :
          /\ t <= plugin_run.spend
          /\ \A r \in ReachedThresholds : r <= t

\* What the code keeps: the tier upserted is the one reported, and it is
\* the highest tier reached when the spend reaches a tier at all.
TierWithinSpendWhenReached ==
  (TierDone /\ ReachedThresholds # {}) =>
    /\ plugin_run.result[1].summary.tier_id = plugin_run.tierRow[1]
    /\ \A t \in UpsertedThresholds :
          /\ t <= plugin_run.spend
          /\ \A r \in ReachedThresholds : r <= t

\* Spend 18000 selects silver and spend 2000 selects base of the
\* thresholds 0 and 15000.
TierExample ==
  (/\ TierDone
   /\ Len(plugin_run.raw.tiers) = 2
   /\ plugin_run.raw.tiers[1].threshold_cents = 0
   /\ plugin_run.raw.tiers[2].threshold_cents = 15000)
    => /\ plugin_run.spend = 18000 => plugin_run.tierRow = Some("silver")
       /\ plugin_run.spend = 2000 => plugin_run.tierRow = Some("base")

\* No tier is reached and the lowest one is upserted all the same.
TierAboveSpend ==
  /\ TierDone
  /\ ReachedThresholds = {}
  /\ \E t \in UpsertedThresholds : t > plugin_run.spend

(***************************************************************************)
(* The coupons of a stamp card.                                            *)
(***************************************************************************)
\* The stamps and the coupons of the card "coffee" the committed journal
\* holds for the customer.
StampsHeld == Balance(ledger_journal, Customer, "stamps:coffee")

CouponsHeld == Balance(ledger_journal, Customer, "coupon:coffee")

CardThresholds ==
  {program_configs.stamp_programs[i].threshold[1] :
     i \in {i \in DOMAIN program_configs.stamp_programs :
              /\ program_configs.stamp_programs[i].id = "coffee"
              /\ ~IsNone(program_configs.stamp_programs[i].threshold)}}

\* C33: each receipt issues floor((B + s)/N) - floor(B/N) coupons of a stamp
\* program with threshold N, B the customer's stamps before the receipt and
\* s the stamps added, so that the coupons issued over the receipts
\* processed total floor(total stamps / N).
C33_CouponsTotal ==
  \A N \in CardThresholds : CouponsHeld = StampsHeld \div N

\* Two receipts were processed and a coupon the stamps have earned is
\* missing.
CouponMissing ==
  /\ \A j \in DOMAIN receipt_jobs : receipt_jobs[j].status = "completed"
  /\ \E N \in CardThresholds : CouponsHeld < StampsHeld \div N

(***************************************************************************)
(* The payments service: PayoutScheduler.runOnce over one window.          *)
(* payments holds the program_configs, payment_accounts and                *)
(* settlement_reports rows of the window and the payout_batches and        *)
(* payout_items tables.                                                    *)
(***************************************************************************)
MaxRuns == 2

\* BigInt division truncates toward zero.
TruncDiv(a, b) == IF a >= 0 THEN a \div b ELSE 0 - ((0 - a) \div b)

Abs(n) == IF n < 0 THEN 0 - n ELSE n

\* applyBps that drops the half added before the division.
applyBpsTruncated(amount, bps) ==
  IF bps = 0 \/ amount = 0 THEN 0
  ELSE IF amount < 0 THEN 0 - TruncDiv(Abs(amount) * bps, 10000)
  ELSE TruncDiv(Abs(amount) * bps, 10000)

\* payout-scheduler.ts lines 310-318.
applyBps(amount, bps) ==
  IF bps = 0 \/ amount = 0 THEN 0
  ELSE IF amount < 0 THEN 0 - TruncDiv((Abs(amount) * bps) + 5000, 10000)
  ELSE TruncDiv((Abs(amount) * bps) + 5000, 10000)

\* payout-scheduler.ts lines 292-308; settlementAdjustmentBps is None for
\* the NULL the report query selects.
calculateAmounts(netPoints, centsPerPoint, platformFeeBps, settlementAdjustmentBps) ==
  LET grossCents == netPoints * centsPerPoint
      feeCents == applyBps(grossCents, platformFeeBps)
      adjustmentCents == IF IsNone(settlementAdjustmentBps) THEN 0
                         ELSE applyBps(grossCents, settlementAdjustmentBps[1])
  IN [grossCents |-> grossCents,
      feeCents |-> feeCents,
      adjustmentCents |-> adjustmentCents,
      netCents |-> (grossCents - feeCents) + adjustmentCents]

\* payout-scheduler.ts lines 277-290: the defaults of a missing config.
normaliseProgramConfig(config) ==
  IF IsNone(config)
  THEN [centsPerPoint |-> 100, platformFeeBps |-> 0, minPayoutCents |-> 0]
  ELSE [centsPerPoint |-> config[1].cents_per_point,
        platformFeeBps |-> config[1].platform_fee_bps,
        minPayoutCents |-> config[1].min_payout_cents]

\* fetchSettlementReports: the reports of the window joined with the
\* payment account of their merchant and the program config of their
\* tenant; reports of 0 points are dropped.
fetchSettlementReports(p) ==
  {[tenantId |-> sr.tenant_id,
    merchantAccount |-> sr.merchant_account,
    netPoints |-> sr.net_points,
    centsPerPoint |->
      normaliseProgramConfig(p.configs[sr.tenant_id]).centsPerPoint,
    platformFeeBps |->
      normaliseProgramConfig(p.configs[sr.tenant_id]).platformFeeBps,
    minPayoutCents |->
      normaliseProgramConfig(p.configs[sr.tenant_id]).minPayoutCents,
    settlementAdjustmentBps |-> None,
    period |-> sr.period] :
     sr \in {sr \in p.reports :
               /\ <<sr.tenant_id, sr.merchant_account>> \in p.accounts
               /\ sr.net_points # 0}}

\* The orders a query without ORDER BY may return the rows of S in.
Orders(S) ==
  {f \in [1..Cardinality(S) -> S] : \A r \in S : \E i \in DOMAIN f : f[i] = r}

\* groupByTenant: the tenants in the order of their first row.
RECURSIVE TenantsInOrder(_)
TenantsInOrder(rows) ==
  IF rows = <<>> THEN <<>>
  ELSE LET before == TenantsInOrder(SubSeq(rows, 1, Len(rows) - 1))
           tenantId == rows[Len(rows)].tenantId
       IN IF \E i \in DOMAIN before : before[i] = tenantId THEN before
          ELSE Append(before, tenantId)

\* insertBatch: the batch of the tenant and window, inserted unless the
\* unique constraint finds one.
insertBatch(batches, batchId, tenantId) ==
  IF \E b \in batches : b.tenant_id = tenantId
  THEN [batches |-> batches,
        batchId |-> (CHOOSE b \in batches : b.tenant_id = tenantId).batch_id,
        isNew |-> FALSE]
  ELSE [batches |-> batches \cup
                      {[batch_id |-> batchId, tenant_id |-> tenantId,
                        status |-> "open",
                        summary |-> [total_items |-> 0,
                                     payouts |-> None,
                                     collections |-> None]]},
        batchId |-> batchId,
        isNew |-> TRUE]

\* The row buildPayoutItems inserts for a report.
PayoutItem(itemId, batchId, report) ==
  LET amounts == calculateAmounts(report.netPoints, report.centsPerPoint,
                                  report.platformFeeBps,
                                  report.settlementAdjustmentBps)
  IN [item_id |-> itemId,
      batch_id |-> batchId,
      tenant_id |-> report.tenantId,
      merchant_account |-> report.merchantAccount,
      points_settled |-> report.netPoints,
      rate_cents_per_point |-> report.centsPerPoint,
      gross_cents |-> amounts.grossCents,
      platform_fee_bps |-> report.platformFeeBps,
      fee_cents |-> amounts.feeCents,
      adj_cents |-> amounts.adjustmentCents,
      net_cents |-> amounts.netCents,
      direction |-> IF amounts.netCents >= 0 THEN "payout" ELSE "collect",
      status |-> "pending"]

\* buildPayoutItems: the loop over the reports of the tenant.  The INSERT
\* does nothing when the batch has an item of the merchant account; the
\* counters count the report all the same.
RECURSIVE buildPayoutItems(_, _, _)
buildPayoutItems(items, batchId, reports) ==
  IF reports = <<>>
  THEN [items |-> items, inserted |-> 0, payoutCount |-> 0,
        payoutAmount |-> 0, collectionCount |-> 0, collectionAmount |-> 0]
  ELSE LET prev == buildPayoutItems(items, batchId,
                                    SubSeq(reports, 1, Len(reports) - 1))
           report == reports[Len(reports)]
           item == PayoutItem(<<batchId, prev.inserted + 1>>, batchId, report)
       IN IF Abs(item.net_cents) < report.minPayoutCents THEN prev
          ELSE [items |->
                  IF \E i \in prev.items :
                       /\ i.batch_id = batchId
                       /\ i.merchant_account = item.merchant_account
                  THEN prev.items ELSE prev.items \cup {item},
                inserted |-> prev.inserted + 1,
                payoutCount |-> prev.payoutCount
                  + (IF item.direction = "payout" THEN 1 ELSE 0),
                payoutAmount |-> prev.payoutAmount
                  + (IF item.direction = "payout" THEN item.net_cents ELSE 0),
                collectionCount |-> prev.collectionCount
                  + (IF item.direction = "payout" THEN 0 ELSE 1),
                collectionAmount |-> prev.collectionAmount
                  + (IF item.direction = "payout" THEN 0
                     ELSE 0 - item.net_cents)]

\* Lines 247-262: the summary the batch is updated with.
BatchSummary(built) ==
  [total_items |-> built.inserted,
   payouts |-> Some([count |-> built.payoutCount,
                     amount_cents |-> built.payoutAmount]),
   collections |-> Some([count |-> built.collectionCount,
                         amount_cents |-> built.collectionAmount])]

\* The body of the loop of runOnce for one tenant.
ScheduleTenant(p, tenantId, rows, run) ==
  LET batch == insertBatch(p.batches, <<tenantId, run>>, tenantId)
      built == buildPayoutItems(p.items, batch.batchId,
                 SelectSeq(rows, LAMBDA r : r.tenantId = tenantId))
  IN IF built.inserted = 0
     THEN [p EXCEPT !.batches = IF batch.isNew THEN p.batches
                                ELSE batch.batches]
     ELSE [p EXCEPT
             !.batches = {IF b.batch_id = batch.batchId
                          THEN [b EXCEPT !.summary = BatchSummary(built)]
                          ELSE b : b \in batch.batches},
             !.items = built.items]

RECURSIVE ScheduleTenants(_, _, _, _)
ScheduleTenants(p, tenants, rows, run) ==
  IF tenants = <<>> THEN p
  ELSE ScheduleTenants(ScheduleTenant(p, Head(tenants), rows, run),
                       Tail(tenants), rows, run)

\* The program configs seeded: the two of the scheduler's tests, one that
\* pays every cent out, and none.
PaymentConfigs ==
  {Some([cents_per_point |-> 100, platform_fee_bps |-> 200,
         min_payout_cents |-> 1000]),
   Some([cents_per_point |-> 200, platform_fee_bps |-> 100,
         min_payout_cents |-> 1000]),
   Some([cents_per_point |-> 1, platform_fee_bps |-> 200,
         min_payout_cents |-> 0]),
   None}

NetPointsChoices == {0 - 300, 0 - 25, 0, 9, 25, 500}

Report(tenantId, merchantAccount, period, netPoints) ==
  [tenant_id |-> tenantId, merchant_account |-> merchantAccount,
   period |-> period, net_points |-> netPoints]

\* The reports of the window: one of merchant account acctA of tenant t1,
\* next to none, to a report of acctB, or to a report of a second period
\* of acctA that lies in the window too; tenant t2 has a report or none.
ReportSets ==
  {{Report("t1", "acctA", 1, n1)} \cup more \cup other :
     n1 \in NetPointsChoices,
     more \in {{}} \cup {{Report("t1", m[1], m[2], n2)} :
                           m \in {<<"acctA", 2>>, <<"acctB", 1>>},
                           n2 \in NetPointsChoices},
     other \in {{}, {Report("t2", "acctA", 1, 500)}}}

InitScheduler ==
  /\ calls = NoCalls
  /\ notifier = NoNotifier
  /\ plugin_run = NoRun
  /\ InitFrom(EmptyScenario)
  /\ \E config \in PaymentConfigs, reports \in ReportSets,
        accounts \in {{<<"t1", "acctA">>, <<"t1", "acctB">>, <<"t2", "acctA">>},
                      {<<"t1", "acctA">>, <<"t2", "acctA">>}} :
       payments = [kind |-> "scheduler",
                   configs |-> [t \in {"t1", "t2"} |->
                                  IF t = "t1" THEN config ELSE None],
                   accounts |-> accounts,
                   reports |-> reports,
                   batches |-> {},
                   items |-> {},
                   runs |-> 0]

\* PayoutScheduler.runOnce: one transaction.
RunOnce ==
  /\ payments.kind = "scheduler"
  /\ payments.runs < MaxRuns
  /\ \E rows \in Orders(fetchSettlementReports(payments)) :
       payments' =
         [ScheduleTenants(payments, TenantsInOrder(rows), rows,
                          payments.runs + 1)
            EXCEPT !.runs = payments.runs + 1]
  /\ UNCHANGED <<now, ticks, env, maxAttempts, program_configs,
                 merchant_status, merchant_redemption_rules, receipts,
                 redeem_requests, calls, plugin_run, notifier, db_vars, tx,
                 picks>>

NextScheduler == RunOnce

SpecScheduler == InitScheduler /\ [][NextScheduler]_vars

\* n / d rounded to the nearest integer, halves away from zero (d > 0).
RoundHalfAway(n, d) ==
  IF n >= 0 THEN ((2 * n) + d) \div (2 * d)
  ELSE 0 - (((2 * (0 - n)) + d) \div (2 * d))

\* The items stored for the report: those of its tenant and merchant
\* account that settle its points.
ItemsOfReport(report) ==
  {i \in payments.items :
     /\ i.tenant_id = report.tenantId
     /\ i.merchant_account = report.merchantAccount
     /\ i.points_settled = report.netPoints}

\* The item has the amounts and the direction the report derives.
ItemAsDerived(item, report) ==
  /\ item.status = "pending"
  /\ item.gross_cents = report.netPoints * report.centsPerPoint
  /\ item.fee_cents =
       RoundHalfAway(item.gross_cents * report.platformFeeBps, 10000)
  /\ (item.gross_cents > 0 => item.fee_cents >= 0)
  /\ (item.gross_cents < 0 => item.fee_cents <= 0)
  /\ item.net_cents = (item.gross_cents - item.fee_cents) + item.adj_cents
  /\ (item.net_cents > 0 => item.direction = "payout")
  /\ (item.net_cents < 0 => item.direction = "collect")

\* The net_cents the report derives; adj_cents is 0 without an adjustment.
DerivedNet(report) ==
  (report.netPoints * report.centsPerPoint)
    - RoundHalfAway(report.netPoints * report.centsPerPoint
                      * report.platformFeeBps, 10000)

ReportScheduled(report) ==
  IF Abs(DerivedNet(report)) < report.minPayoutCents
  THEN ItemsOfReport(report) = {}
  ELSE /\ Cardinality(ItemsOfReport(report)) = 1
       /\ \A item \in ItemsOfReport(report) : ItemAsDerived(item, report)

\* C34: for each settlement report in the window the scheduler derives
\* gross_cents = net_points * cents_per_point, fee_cents = gross_cents *
\* platform_fee_bps / 10000 rounded half away from zero with the sign of
\* gross, and net_cents = gross_cents - fee_cents + adj_cents; it creates
\* no item when |net_cents| < min_payout_cents and otherwise one pending
\* item, a payout if net_cents > 0 and a collection if it is negative.
C34_ItemPerReport ==
  (payments.kind = "scheduler" /\ payments.runs > 0) =>
    \A report \in fetchSettlementReports(payments) : ReportScheduled(report)

\* No two reports of the window are of one merchant account.
OneReportPerMerchant ==
  \A r1, r2 \in fetchSettlementReports(payments) :
     (r1.tenantId = r2.tenantId /\ r1.merchantAccount = r2.merchantAccount)
       => r1 = r2

\* What the code keeps: the amounts, the threshold and the direction are as
\* derived when every merchant account has one report in the window.
ItemPerReportOfMerchant ==
  (payments.kind = "scheduler" /\ payments.runs > 0 /\ OneReportPerMerchant)
    => \A report \in fetchSettlementReports(payments) :
          ReportScheduled(report)

\* 500 points at 100 cents and 200 bps are paid out as 49000 with a fee of
\* 1000; -300 points at 200 cents and 100 bps are collected as -59400.
SchedulerExamples ==
  (payments.kind = "scheduler" /\ payments.runs > 0 /\ OneReportPerMerchant)
    => \A report \in fetchSettlementReports(payments) :
         /\ (/\ report.netPoints = 500
             /\ report.centsPerPoint = 100
             /\ report.platformFeeBps = 200)
              => \A item \in ItemsOfReport(report) :
                    /\ item.direction = "payout"
                    /\ item.net_cents = 49000
                    /\ item.fee_cents = 1000
         /\ (/\ report.netPoints = 0 - 300
             /\ report.centsPerPoint = 200
             /\ report.platformFeeBps = 100)
              => \A item \in ItemsOfReport(report) :
                    /\ item.direction = "collect"
                    /\ item.net_cents = 0 - 59400

\* A report above the threshold whose merchant account was given the item
\* of another report of the window.
ReportWithoutItem ==
  /\ payments.kind = "scheduler"
  /\ payments.runs > 0
  /\ \E report \in fetchSettlementReports(payments) :
        /\ Abs(DerivedNet(report)) >= report.minPayoutCents
        /\ ItemsOfReport(report) = {}

(***************************************************************************)
(* The batch of a window and its summary.                                  *)
(***************************************************************************)
ItemsOfBatch(batch, direction) ==
  {i \in payments.items :
     i.batch_id = batch.batch_id /\ i.direction = direction}

RECURSIVE SumNetCents(_)
SumNetCents(items) ==
  IF items = {} THEN 0
  ELSE LET i == CHOOSE x \in items : TRUE
       IN Abs(i.net_cents) + SumNetCents(items \ {i})

\* The summary of the batch counts and adds up the items stored in it.
SummaryOfStoredItems(batch) ==
  LET payouts == ItemsOfBatch(batch, "payout")
      collections == ItemsOfBatch(batch, "collect")
  IN /\ batch.summary.total_items
          = Cardinality(payouts) + Cardinality(collections)
     /\ batch.summary.payouts
          = Some([count |-> Cardinality(payouts),
                  amount_cents |-> SumNetCents(payouts)])
     /\ batch.summary.collections
          = Some([count |-> Cardinality(collections),
                  amount_cents |-> SumNetCents(collections)])

BatchesAsClaimed ==
  /\ \A b1, b2 \in payments.batches :
        b1.tenant_id = b2.tenant_id => b1 = b2
  /\ \A i1, i2 \in payments.items :
        (i1.batch_id = i2.batch_id
           /\ i1.merchant_account = i2.merchant_account) => i1 = i2
  /\ \A i \in payments.items :
        \E b \in payments.batches :
           b.batch_id = i.batch_id /\ b.tenant_id = i.tenant_id
  /\ \A b \in payments.batches : SummaryOfStoredItems(b)

\* C35: however often the scheduler runs over one window there is one batch
\* per tenant with at most one payout item per merchant account, and the
\* summary of the batch (total_items, the counts and the amounts of the
\* payouts and of the collections) equals the count and the sums of the
\* items stored in the batch.
C35_IdempotentBatches ==
  (payments.kind = "scheduler" /\ payments.runs > 0) => BatchesAsClaimed

\* What the code keeps: the batches are as claimed when every merchant
\* account has one report in the window.
BatchesOfSingleReports ==
  (payments.kind = "scheduler" /\ payments.runs > 0 /\ OneReportPerMerchant)
    => BatchesAsClaimed

\* The scheduler has run twice and a summary counts more items than the
\* batch holds.
SummaryCountsTooMany ==
  /\ payments.kind = "scheduler"
  /\ payments.runs = MaxRuns
  /\ \E b \in payments.batches :
        b.summary.total_items
          > Cardinality({i \in payments.items : i.batch_id = b.batch_id})

(***************************************************************************)
(* The balance check of the redeem plugin against lot consumption.         *)
(***************************************************************************)
\* The plugin has accepted the request on tenant t1's own tables.
RedeemAccepted ==
  /\ TenantDone
  /\ ~IsNone(plugin_run.alone[1].result)
  /\ plugin_run.alone[1].result[1].type = "success"

\* C36: with no other writer, whenever the balance check of the redeem
\* plugin passes and the plugin returns success, the consumption of the
\* lots for its allocation succeeds: the eligible lots of each item's scope
\* cover the item's amount.
C36_ConsumptionCovered ==
  RedeemAccepted => ~plugin_run.alone[1].threw

\* An accepted redemption whose consumption took points from the lots.
RedeemConsumed ==
  /\ RedeemAccepted
  /\ ~plugin_run.alone[1].threw
  /\ \E l \in DOMAIN plugin_run.alone[1].lots :
        plugin_run.alone[1].lots[l].qty_remaining
          < point_lots[l].qty_remaining

(***************************************************************************)
(* The payments service: PayoutSubmitter, PayoutReconciler and the retry   *)
(* endpoints of the API over two payout items, the payout "p" and the      *)
(* collection "c" created after it.                                        *)
(***************************************************************************)
MaxRetries == 2

submitterMaxAttempts == 5

ItemIds == <<"p", "c">>

\* failItem.
failItem(item, message) ==
  [item EXCEPT !.status = "failed", !.error = Some(message)]

\* takeNextItem: the oldest pending item, if any.
takeNextItem(p) ==
  LET pending == {k \in DOMAIN ItemIds : p.items[ItemIds[k]].status = "pending"}
  IN IF pending = {} THEN None
     ELSE Some(ItemIds[CHOOSE k \in pending : \A m \in pending : k <= m])

\* What createPayout and createDebit answer.
PspAnswers == {"accepted", "rejected"}

\* submitPayout.
submitPayout(p, id, answer) ==
  LET item == p.items[id] IN
  IF IsNone(item.merchant_id) \/ ~p.account
  THEN [p EXCEPT !.items[id] =
          failItem(item, "Missing merchant PSP account details")]
  ELSE IF item.net_cents <= 0
  THEN [p EXCEPT !.items[id] =
          failItem(item, "Payout item has non-positive net amount")]
  ELSE IF answer = "accepted"
  THEN [p EXCEPT !.items[id] =
                    [item EXCEPT !.status = "submitted",
                                 !.psp_transfer_id =
                                   Some(<<"transfer", p.accepted[id] + 1>>),
                                 !.error = None],
                 !.accepted[id] = @ + 1]
  ELSE [p EXCEPT !.items[id] = failItem(item, "PSP error")]

\* upsertCollection: the collections row of the item, inserted when there
\* is none.
upsertCollection(collections) ==
  IF IsNone(collections)
  THEN [status |-> "pending", attempts |-> 0, psp_debit_id |-> None,
        error |-> None]
  ELSE collections[1]

\* submitCollection.
submitCollection(p, id, answer) ==
  LET item == p.items[id]
      collection == upsertCollection(p.collections)
  IN IF item.net_cents >= 0
     THEN [p EXCEPT !.items[id] =
             failItem(item, "Collection item has non-negative net amount")]
     ELSE IF collection.attempts >= submitterMaxAttempts
     THEN [p EXCEPT !.collections = Some(collection),
                    !.items[id] =
                      failItem(item, "Collection exceeded max attempts")]
     ELSE IF answer = "accepted"
     THEN [p EXCEPT
             !.collections =
               Some([collection EXCEPT
                       !.status = "submitted",
                       !.attempts = @ + 1,
                       !.psp_debit_id = Some(<<"debit", p.accepted[id] + 1>>),
                       !.error = None]),
             !.items[id] = [item EXCEPT !.status = "submitted",
                                        !.error = None],
             !.accepted[id] = @ + 1]
     ELSE [p EXCEPT
             !.collections =
               Some([collection EXCEPT !.status = "failed",
                                       !.attempts = @ + 1,
                                       !.error = Some("PSP error")]),
             !.items[id] = failItem(item, "PSP error")]

\* What adapter.lookup answers: no result (or it throws), or a status.
LookupAnswers == {"none", "pending", "succeeded", "failed"}

\* reconcilePayout.
reconcilePayout(p, id, answer) ==
  IF answer = "succeeded"
  THEN [p EXCEPT !.items[id].status = "succeeded", !.items[id].error = None]
  ELSE IF answer = "failed"
  THEN [p EXCEPT !.items[id] =
          failItem(p.items[id], "PSP reported payout failure")]
  ELSE p

\* reconcileCollection.
reconcileCollection(p, id, answer) ==
  IF answer = "succeeded"
  THEN [p EXCEPT !.collections = Some([p.collections[1] EXCEPT
                                         !.status = "succeeded",
                                         !.error = None]),
                 !.items[id].status = "succeeded",
                 !.items[id].error = None]
  ELSE IF answer = "failed"
  THEN [p EXCEPT !.collections =
                   Some([p.collections[1] EXCEPT
                           !.status = "failed",
                           !.error = Some("PSP reported collection failure")]),
                 !.items[id] =
                   failItem(p.items[id], "PSP reported collection failure")]
  ELSE p

\* loadSubmittedPayouts and loadSubmittedCollections; old are the rows
\* whose updated_at lies before the cutoff.
loadSubmittedPayouts(p, old) ==
  {id \in old : /\ p.items[id].status = "submitted"
                /\ ~IsNone(p.items[id].psp_transfer_id)}

loadSubmittedCollections(p, old) ==
  {id \in old : /\ id = "c"
                /\ ~IsNone(p.collections)
                /\ p.collections[1].status = "submitted"
                /\ ~IsNone(p.collections[1].psp_debit_id)}

InitPayout ==
  /\ calls = NoCalls
  /\ notifier = NoNotifier
  /\ plugin_run = NoRun
  /\ InitFrom(EmptyScenario)
  /\ \E account \in BOOLEAN, net \in {0, 49000},
        attempts \in {0, submitterMaxAttempts - 1} :
       payments =
         [kind |-> "payout",
          account |-> account,
          items |->
            [id \in {"p", "c"} |->
               [direction |-> IF id = "p" THEN "payout" ELSE "collect",
                merchant_id |-> Some("acctA"),
                net_cents |-> IF id = "p" THEN net ELSE 0 - 20000,
                status |-> IF id = "c" /\ attempts > 0 THEN "failed"
                           ELSE "pending",
                psp_transfer_id |-> None,
                error |-> IF id = "c" /\ attempts > 0 THEN Some("PSP error")
                          ELSE None]],
          collections |->
            IF attempts = 0 THEN None
            ELSE Some([status |-> "failed", attempts |-> attempts,
                       psp_debit_id |-> None, error |-> Some("PSP error")]),
          accepted |-> [id \in {"p", "c"} |-> 0],
          retries |-> 0]

\* PayoutSubmitter.processNextPending: one transaction.
ProcessNextPending ==
  /\ payments.kind = "payout"
  /\ ~IsNone(takeNextItem(payments))
  /\ \E answer \in PspAnswers :
       payments' =
         IF payments.items[takeNextItem(payments)[1]].direction = "payout"
         THEN submitPayout(payments, takeNextItem(payments)[1], answer)
         ELSE submitCollection(payments, takeNextItem(payments)[1], answer)
  /\ UNCHANGED <<now, ticks, env, maxAttempts, program_configs,
                 merchant_status, merchant_redemption_rules, receipts,
                 redeem_requests, calls, plugin_run, notifier, db_vars, tx,
                 picks>>

\* PayoutReconciler.reconcileSubmitted: one transaction.
ReconcileSubmitted ==
  /\ payments.kind = "payout"
  /\ \E old \in SUBSET {"p", "c"} :
       /\ loadSubmittedPayouts(payments, old)
            \cup loadSubmittedCollections(payments, old) # {}
       /\ \E answers \in [{"p", "c"} -> LookupAnswers] :
            payments' =
              LET paid == IF "p" \in loadSubmittedPayouts(payments, old)
                          THEN reconcilePayout(payments, "p", answers["p"])
                          ELSE payments
              IN IF "c" \in loadSubmittedCollections(payments, old)
                 THEN reconcileCollection(paid, "c", answers["c"])
                 ELSE paid
  /\ UNCHANGED <<now, ticks, env, maxAttempts, program_configs,
                 merchant_status, merchant_redemption_rules, receipts,
                 redeem_requests, calls, plugin_run, notifier, db_vars, tx,
                 picks>>

\* The rows POST /v1/payments/payouts/:item_id/retry leaves, whatever the
\* status of the item was.
RetriedPayout(p, id) ==
  [p EXCEPT
     !.items[id] = [@ EXCEPT !.status = "pending", !.error = None,
                             !.psp_transfer_id = None],
     !.collections =
       IF p.items[id].direction = "collect" /\ ~IsNone(@)
       THEN Some([@[1] EXCEPT !.status = "pending", !.error = None,
                              !.psp_debit_id = None])
       ELSE @,
     !.retries = @ + 1]

\* POST /v1/payments/payouts/:item_id/retry.
RetryPayout(id) ==
  /\ payments.kind = "payout"
  /\ payments.retries < MaxRetries
  /\ payments' = RetriedPayout(payments, id)
  /\ UNCHANGED <<now, ticks, env, maxAttempts, program_configs,
                 merchant_status, merchant_redemption_rules, receipts,
                 redeem_requests, calls, plugin_run, notifier, db_vars, tx,
                 picks>>

\* POST /v1/payments/collections/:collection_id/retry.
RetryCollection ==
  /\ payments.kind = "payout"
  /\ payments.retries < MaxRetries
  /\ ~IsNone(payments.collections)
  /\ payments' =
       [payments EXCEPT
          !.collections = Some([@[1] EXCEPT !.status = "pending",
                                            !.error = None,
                                            !.psp_debit_id = None]),
          !.items["c"] = [@ EXCEPT !.status = "pending", !.error = None],
          !.retries = @ + 1]
  /\ UNCHANGED <<now, ticks, env, maxAttempts, program_configs,
                 merchant_status, merchant_redemption_rules, receipts,
                 redeem_requests, calls, plugin_run, notifier, db_vars, tx,
                 picks>>

NextPayout ==
  \/ ProcessNextPending
  \/ ReconcileSubmitted
  \/ \E id \in {"p", "c"} : RetryPayout(id)
  \/ RetryCollection

SpecPayout == InitPayout /\ [][NextPayout]_vars

\* The moves of the status of a payout item: submission, its failure,
\* reconciliation, and the retry of a failed item.
StatusMoves ==
  {<<"pending", "submitted">>, <<"pending", "failed">>,
   <<"submitted", "succeeded">>, <<"submitted", "failed">>,
   <<"failed", "pending">>}

StatusMovesAsClaimed ==
  \A id \in {"p", "c"} :
     /\ \/ payments'.items[id].status = payments.items[id].status
        \/ <<payments.items[id].status, payments'.items[id].status>>
             \in StatusMoves
     /\ payments'.accepted[id] > payments.accepted[id]
          => payments.accepted[id] = 0

\* C37: the status of a payout item moves only pending -> submitted ->
\* succeeded or failed, or pending -> failed; no operation, the retry
\* endpoints included, returns a submitted or succeeded item to pending, so
\* that a transfer or debit the PSP accepted is never submitted again.
C37_StatusMoves ==
  [][payments.kind = "payout" => StatusMovesAsClaimed]_vars

\* What the code keeps: the submitter moves pending items only, to
\* submitted or failed, and the reconciler moves submitted items only, to
\* succeeded or failed.
WorkersMoveAsClaimed ==
  [][(ProcessNextPending \/ ReconcileSubmitted) =>
       \A id \in {"p", "c"} :
          \/ payments'.items[id].status = payments.items[id].status
          \/ <<payments.items[id].status, payments'.items[id].status>>
               \in StatusMoves \ {<<"failed", "pending">>}]_vars

\* The PSP has accepted the transfer of one item twice.
AcceptedTwice ==
  /\ payments.kind = "payout"
  /\ \E id \in {"p", "c"} : payments.accepted[id] = 2

(***************************************************************************)
(* The body of the POSTs of a notification.                                *)
(***************************************************************************)
\* C38: every POST of a notification, the first and every retry, carries
\* the status and the error that were recorded when the job reached its
\* terminal state (the summary of the row is never written again).
C38_SameBody ==
  OutboxRuns =>
    \A i \in DOMAIN notifier.posted :
       ~IsNone(notifier.posted[i])
         => notifier.posted[i][1] = NotificationPayload(OutboxRow(i))

\* What the code keeps: the status of the body is the one recorded.
SameStatusPosted ==
  OutboxRuns =>
    \A i \in DOMAIN notifier.posted :
       ~IsNone(notifier.posted[i])
         => notifier.posted[i][1].status = OutboxRow(i).status

\* A notification of a completed job was POSTed with an error.
CompletedPostedWithError ==
  /\ OutboxRuns
  /\ \E i \in DOMAIN notifier.posted :
        /\ OutboxRow(i).status = "completed"
        /\ ~IsNone(notifier.posted[i])
        /\ ~IsNone(notifier.posted[i][1].error)

(***************************************************************************)
(* The merchant of a lot.                                                  *)
(***************************************************************************)
\* The receipts whose earn entry the lot is tied to.
ReceiptsOfLot(lot) ==
  {receipts[row.receipt_id[1] - 100] :
     row \in {row \in ledger_journal :
                /\ Some(row.entry_id) = lot.earn_entry_id
                /\ ~IsNone(row.receipt_id)
                /\ (row.receipt_id[1] - 100) \in DOMAIN receipts}}

\* C39: the merchant_id of a lot equals the merchant_id of the receipt that
\* earned it, for every merchant_id string, those that contain ':'
\* included.
C39_LotMerchant ==
  \A l \in DOMAIN point_lots :
     \A receipt \in ReceiptsOfLot(point_lots[l]) :
        point_lots[l].merchant_id = receipt.merchant_id

\* What the code keeps: the lot has the merchant_id of the receipt when the
\* id is a single segment between colons.
LotMerchantWithoutColon ==
  \A l \in DOMAIN point_lots :
     \A receipt \in ReceiptsOfLot(point_lots[l]) :
        Len(receipt.merchant_id) = 1
          => point_lots[l].merchant_id = receipt.merchant_id

\* The lot of the receipt of merchant "shop:1" is a lot of merchant "shop".
LotOfOtherMerchant ==
  \E l \in DOMAIN point_lots :
     /\ point_lots[l].merchant_id = <<"shop">>
     /\ \E receipt \in ReceiptsOfLot(point_lots[l]) :
           receipt.merchant_id = <<"shop", "1">>

(***************************************************************************)
(* Receipt jobs before redeem jobs.                                        *)
(***************************************************************************)
MaxJobs == 4

JobIds == 1..MaxJobs

\* A step of worker w's loop between the statements of a transaction.
WorkerStep(w) ==
  \/ PickReceipt(w)
  \/ PickRedeem(w)
  \/ ConsumeLotsSelect(w)
  \/ ConsumeLotsUpdate(w)
  \/ Commit(w)

\* The callback of the transaction that has marked its job: it can run
\* whenever the job is picked.
WorkerCallback(w) == ProcessReceipt(w) \/ RunRedeem(w)

\* run: every worker calls processNextJob again and again, so a step of
\* its loop that stays possible is taken, and a picked job does not stay
\* picked for ever.
RunnerFairness ==
  \A w \in Workers :
    /\ WF_vars(WorkerStep(w))
    /\ []<>(tx[w].pc # "picked") \/ []<><<WorkerCallback(w)>>_vars

\* The scenarios with pending receipt jobs next to a pending redeem job
\* for all the points the receipts earn.
RunnerScenarios ==
  {sc \in Scenarios : /\ sc.receipts # <<>>
                      /\ sc.redeems # <<>>
                      /\ sc.redeems[1].request.qty = MaxQty}

InitRunner ==
  /\ \E sc \in RunnerScenarios : InitFrom(sc)
  /\ calls = NoCalls
  /\ notifier = NoNotifier
  /\ payments = NoPayments
  /\ plugin_run = NoRun

SpecRunner == InitRunner /\ [][Next]_vars /\ RunnerFairness

\* The receipt jobs another transaction reads as pending and due.
DueReceiptJobs == {j \in DOMAIN receipt_jobs : JobIsDue(receipt_jobs[j])}

\* Worker w selects and marks a redeem job in this step.
RedeemPicked(w) ==
  /\ tx[w].pc = "idle"
  /\ tx'[w].pc = "picked"
  /\ tx'[w].table = "redeem_jobs"

\* Redeem job j is pending and due.
RedeemJobIsDue(j) == j \in DOMAIN redeem_jobs /\ JobIsDue(redeem_jobs[j])

====
